---- MODULE Spec2Model ----
(***************************************************************************)
(* A model of the Draco geometry codec's byte/bit buffers, symbol maps,    *)
(* mesh container and modern API wrappers.                                 *)
(*                                                                         *)
(* Fixed-width integers are kept at their width.  TLC's integers are 32    *)
(* bit signed, so a 32 or 64 bit machine word is a little-endian sequence  *)
(* of 16 bit limbs (2 limbs: uint32_t/int32_t, 4 limbs: size_t/int64_t);   *)
(* signed words are two's complement.                                      *)
(***************************************************************************)
EXTENDS Integers, Sequences, FiniteSets, TLC

(***************************************************************************)
(* Bounds of the model.                                                    *)
(***************************************************************************)
\* Longest input handed to DecoderBuffer::Init, in bytes.
MaxData == 3
\* How far outside the data, and how far from INT64_MIN and INT64_MAX, a read
\* position is still followed by further calls.
PosSlack == 2

(***************************************************************************)
(* Machine words.                                                          *)
(***************************************************************************)
LimbBase == 2^16
LimbMax == LimbBase - 1
LimbSign == 2^15

\* The |n| limbs word of a small integer (two's complement when negative).
RECURSIVE LimbOf(_, _)
LimbOf(x, i) == IF i = 1 THEN x % LimbBase ELSE LimbOf(x \div LimbBase, i - 1)
Word(x, n) == [i \in 1..n |-> LimbOf(x, i)]
W32(x) == Word(x, 2)
W64(x) == Word(x, 4)

RECURSIVE CarryInto(_, _, _)
CarryInto(a, b, i) ==
  IF i = 1 THEN 0 ELSE (a[i-1] + b[i-1] + CarryInto(a, b, i - 1)) \div LimbBase
\* a + b modulo 2^(16 * Len(a)): unsigned addition, and two's complement
\* signed addition, of the machine.
WordAdd(a, b) == [i \in 1..Len(a) |-> (a[i] + b[i] + CarryInto(a, b, i)) % LimbBase]
\* The unsigned sum does not fit the word.
AddWraps(a, b) == (a[Len(a)] + b[Len(a)] + CarryInto(a, b, Len(a))) >= LimbBase
WordNot(a) == [i \in 1..Len(a) |-> LimbMax - a[i]]
WordNeg(a) == WordAdd(WordNot(a), Word(1, Len(a)))
WordSub(a, b) == WordAdd(a, WordNeg(b))

IsNeg(a) == a[Len(a)] >= LimbSign
RECURSIVE ULessFrom(_, _, _)
ULessFrom(a, b, i) ==
  IF i = 0 THEN FALSE
  ELSE IF a[i] # b[i] THEN a[i] < b[i] ELSE ULessFrom(a, b, i - 1)
\* a < b, both read as unsigned.
ULess(a, b) == ULessFrom(a, b, Len(a))
\* a < b, both read as signed.
SLess(a, b) == IF IsNeg(a) # IsNeg(b) THEN IsNeg(a) ELSE ULess(a, b)
SLessEq(a, b) == a = b \/ SLess(a, b)
\* The signed sum overflows the word.
SAddOverflows(a, b) == IsNeg(a) = IsNeg(b) /\ IsNeg(WordAdd(a, b)) # IsNeg(a)

\* A word whose value is in [0, 2^16): its value as an integer.
IsSmall(a) == \A i \in 2..Len(a) : a[i] = 0
SmallVal(a) == a[1]

(***************************************************************************)
(* DecoderBuffer (C++ build, DRACO_RUST_CORE undefined).                   *)
(***************************************************************************)
VARIABLES
  data_,            \* the bytes handed to Init
  data_size_,       \* int64_t
  pos_,             \* int64_t
  bit_mode_,        \* bool
  bit_buffer_,      \* BitDecoder: offset in data_ of the first byte of the bit sequence
  bit_buffer_end_,  \* BitDecoder: offset in data_ one past its last byte
  bit_offset_,      \* BitDecoder: size_t, bits consumed
  dec_out,          \* the caller's destination (out_data / out_val / out_value)
  dec_ret,          \* what the last call returned
  dec_op,           \* the last call: its name, its size argument, and the
                    \* position and bit offset it started from
  dec_oob,          \* the last call read bytes outside [0, data_size_)
  dec_crashed       \* the process was killed by an out of range access

decv == <<data_, data_size_, pos_, bit_mode_, bit_buffer_, bit_buffer_end_,
          bit_offset_, dec_out, dec_ret, dec_op, dec_oob, dec_crashed>>

(***************************************************************************)
(* EncoderBuffer (C++ build).                                              *)
(***************************************************************************)
VARIABLES
  buffer_,                      \* std::vector<char>: the bytes, each 0..255
  bit_encoder_reserved_bytes_,  \* int64_t
  encode_bit_sequence_size_,    \* bool
  enc_bit_buffer_,              \* BitEncoder::bit_buffer_: offset in buffer_ of its first byte
  enc_bit_offset_,              \* BitEncoder::bit_offset_
  enc_ret,                      \* what the last call returned
  enc_op,                       \* the last call: its name, and whether bit encoding was active
  enc_oob,                      \* a bit was written outside buffer_
  enc_crashed                   \* the process was killed by an out of range access

encv == <<buffer_, bit_encoder_reserved_bytes_, encode_bit_sequence_size_,
          enc_bit_buffer_, enc_bit_offset_, enc_ret, enc_op, enc_oob, enc_crashed>>

(***************************************************************************)
(* The record of a bit sequence written and read back.                     *)
(***************************************************************************)
VARIABLES
  rt_written,   \* the (value, nbits) pairs given to EncodeLeastSignificantBits32
  rt_read       \* the values DecodeLeastSignificantBits32 delivered

rtv == <<rt_written, rt_read>>

(***************************************************************************)
(* ConvertSignedIntToSymbol / ConvertSymbolToSignedInt on 32 bit integers. *)
(***************************************************************************)
VARIABLES
  zz_in,     \* the 32 bit input: an int32_t val, and a uint32_t symbol
  zz_sym,    \* ConvertSignedIntToSymbol(zz_in), once computed
  zz_back,   \* ConvertSymbolToSignedInt(zz_sym), once computed
  zz_dec     \* ConvertSymbolToSignedInt(zz_in), once computed

zzv == <<zz_in, zz_sym, zz_back, zz_dec>>

(***************************************************************************)
(* Mesh (mesh.h), with the point and attribute counts of its PointCloud    *)
(* base.                                                                   *)
(***************************************************************************)
VARIABLES
  num_points_,      \* PointCloud::num_points_
  attributes_,      \* PointCloud: the number of attributes it holds
  faces_,           \* IndexTypeVector<FaceIndex, Face>: its size (size_t) and
                    \* the faces that differ from Face(), by index
  attribute_data_,  \* std::vector<AttributeData>: the element types
  mesh_op,          \* the last call: its name, argument and the
                    \* attribute data and faces it found
  mesh_ub           \* a vector was indexed out of its range

meshv == <<num_points_, attributes_, faces_, attribute_data_, mesh_op, mesh_ub>>

(***************************************************************************)
(* ModernEncoder / ModernDecoder (modern_api.h) and the codec under them.  *)
(***************************************************************************)
VARIABLES
  api_op,     \* the last call: its name and, for a decode, the bytes given
  api_under,  \* what the Encoder / Decoder under the last call returned
  api_enc,    \* the StatusOr of the last encode, with the geometry,
              \* compression level and sizeof(T) it was called with
  api_dec     \* the StatusOr of the last decode

apiv == <<api_op, api_under, api_enc, api_dec>>

(***************************************************************************)
(* DracoCompressionOptions (draco_compression_options.h).                  *)
(***************************************************************************)
VARIABLES
  options,     \* the integer fields of a DracoCompressionOptions
  opt_status   \* the Status of Check() on these options, "none" before it

optv == <<options, opt_status>>

(***************************************************************************)
(* Corner table of a triangle list.                                        *)
(***************************************************************************)
VARIABLES
  ct_faces,     \* the face list the table was built from
  ct_opposite,  \* corner -> opposite corner, kInvalidCorner on a boundary edge
  ct_status     \* "none" before the construction, then "OK" or "NonManifold"

ctv == <<ct_faces, ct_opposite, ct_status>>

(***************************************************************************)
(* EdgeBreaker connectivity encoder.                                       *)
(***************************************************************************)
VARIABLES
  eb_status,      \* "none" before the encoding, then "OK" or "NonManifold"
  eb_components   \* for each component, the symbols emitted and the faces
                  \* visited, in the order of the traversal

ebv == <<eb_status, eb_components>>

(***************************************************************************)
(* rANS symbol coder.                                                      *)
(***************************************************************************)
VARIABLES
  rans_symbols,  \* the symbol sequence given to the encoder
  rans_freq,     \* the normalized frequency table, symbol -> frequency
  rans_stream,   \* the bytes the encoder produced
  rans_out,      \* the result of the decoder
  rans_op        \* "none", "encode" or "decode": the last call

ransv == <<rans_symbols, rans_freq, rans_stream, rans_out, rans_op>>

(***************************************************************************)
(* Attribute quantization.                                                 *)
(***************************************************************************)
VARIABLES
  qz_bits,    \* the quantization bits q
  qz_min,     \* the minimum of the component
  qz_range,   \* the range of the component
  qz_out      \* value -> quantized value, for the values of the component

qzv == <<qz_bits, qz_min, qz_range, qz_out>>

(***************************************************************************)
(* DecoderBuffer built with DRACO_RUST_CORE: the handle to the Rust buffer *)
(* and the members kept beside it.                                         *)
(***************************************************************************)
VARIABLES
  rust_buffer_,  \* the buffer behind the handle: its bytes and its position
  rust_pos_,     \* int64_t pos_, kept "for compatibility"
  rust_ret,      \* what the last call returned in this build
  rust_out,      \* the caller's destination in this build
  rust_calls     \* the number of calls made

rustv == <<rust_buffer_, rust_pos_, rust_ret, rust_out, rust_calls>>

(***************************************************************************)
(* A second DecoderBuffer, made as a copy of the first, in both builds.    *)
(***************************************************************************)
VARIABLES
  dec_copy,    \* C++ build: the members of the copy
  rust_copy,   \* DRACO_RUST_CORE build: the buffer behind the copy's handle
               \* and the copy's pos_
  copy_at      \* the number of calls the source had served when it was
               \* copied, -1 while there is no copy

copyv == <<dec_copy, rust_copy, copy_at>>

(***************************************************************************)
(* The EdgeBreaker encoder state machine, followed step by step.           *)
(***************************************************************************)
VARIABLES
  eb_machine,  \* state, gate, stack, visited vertices and faces, symbols
  eb_k,        \* the corner of a seed face that faces the first gate
  eb_steps     \* the transitions the machine has made

ebmv == <<eb_machine, eb_k, eb_steps>>

vars == <<decv, encv, rtv, zzv, meshv, apiv, optv, ctv, ebv, ransv, qzv, rustv, copyv, ebmv>>

\* What the calls on one object leave alone.
NotDec == <<encv, zzv, meshv, apiv, optv, ctv, ebv, ransv, qzv, copyv, ebmv>>
NotEnc == <<decv, zzv, meshv, apiv, optv, ctv, ebv, ransv, qzv, rustv, copyv, ebmv>>
NotZz == <<decv, encv, rtv, meshv, apiv, optv, ctv, ebv, ransv, qzv, rustv, copyv, ebmv>>
NotMesh == <<decv, encv, rtv, zzv, apiv, optv, ctv, ebv, ransv, qzv, rustv, copyv, ebmv>>
NotApi == <<decv, encv, rtv, zzv, meshv, optv, ctv, ebv, ransv, qzv, rustv, copyv, ebmv>>
NotOpt == <<decv, encv, rtv, zzv, meshv, apiv, ctv, ebv, ransv, qzv, rustv, copyv, ebmv>>
NotCt == <<decv, encv, rtv, zzv, meshv, apiv, optv, ebv, ransv, qzv, rustv, copyv, ebmv>>
NotRans == <<decv, encv, rtv, zzv, meshv, apiv, optv, ctv, ebv, qzv, rustv, copyv, ebmv>>
NotQz == <<decv, encv, rtv, zzv, meshv, apiv, optv, ctv, ebv, ransv, rustv, copyv, ebmv>>
NotCopy == <<decv, encv, rtv, zzv, meshv, apiv, optv, ctv, ebv, ransv, qzv, rustv, ebmv>>
NotEbMachine == <<decv, encv, rtv, zzv, meshv, apiv, optv, ctv, ebv, ransv, qzv, rustv, copyv>>

ByteSamples == {90, 165}
RECURSIVE SeqsUpTo(_, _)
SeqsUpTo(S, n) ==
  IF n = 0 THEN {<<>>}
  ELSE LET shorter == SeqsUpTo(S, n - 1)
       IN shorter \cup {Append(s, x) : s \in {t \in shorter : Len(t) = n - 1}, x \in S}
DataSamples == SeqsUpTo(ByteSamples, MaxData)

\* What the destination holds before a call writes it, and what it holds
\* after bytes that are not the buffer's were copied into it.
Untouched == <<"untouched">>
Garbage == <<"garbage">>

\* sizeof(T) of the typed Decode<T> / Peek<T>.
SizeofT == {1, 2, 4, 8}
\* size_t arguments: small sizes, sizes around 2^63 and sizes around 2^64.
SizeSamples ==
  {W64(n) : n \in 0..(MaxData + 1)} \cup
  {<<LimbMax, LimbMax, LimbMax, LimbMax>>, <<LimbMax - 1, LimbMax, LimbMax, LimbMax>>,
   <<0, 0, 0, LimbSign>>, <<LimbMax, LimbMax, LimbMax, LimbSign - 1>>}
SIZE_MAX == <<LimbMax, LimbMax, LimbMax, LimbMax>>
\* int64_t arguments: small offsets of either sign, INT64_MIN and INT64_MAX.
OffsetSamples ==
  {W64(n) : n \in (-1)..(MaxData + 1)} \cup
  {<<0, 0, 0, LimbSign>>, <<LimbMax, LimbMax, LimbMax, LimbSign - 1>>}

DecInit ==
  /\ data_ = <<>>
  /\ data_size_ = W64(0)
  /\ pos_ = W64(0)
  /\ bit_mode_ = FALSE
  /\ bit_buffer_ = 0
  /\ bit_buffer_end_ = 0
  /\ bit_offset_ = 0
  /\ dec_out = Untouched
  /\ dec_ret = TRUE
  /\ dec_op = [name |-> "DecoderBuffer", size |-> W64(0), pos |-> W64(0), bits |-> 0]
  /\ dec_oob = FALSE
  /\ dec_crashed = FALSE

\* The position is inside the data: 0 <= pos_ <= data_size_.
PosInData == ~IsNeg(pos_) /\ SLessEq(pos_, data_size_)
\* data_size_ - pos_ >= size as mathematical integers, for a position in the data.
Remains(size) == PosInData /\ ~ULess(WordSub(data_size_, pos_), size)

\* memcpy(out, data_ + pos_, size) stays inside the data.
CopyInData(size) == Remains(size)
CopiedBytes(size) ==
  SubSeq(data_, SmallVal(pos_) + 1, SmallVal(pos_) + SmallVal(size))

INT64_MIN == <<0, 0, 0, LimbSign>>
INT64_MAX == <<LimbMax, LimbMax, LimbMax, LimbSign - 1>>
\* The read positions from which further calls are followed.
TrackedPos ==
  {W64(n) : n \in (-PosSlack)..(MaxData + PosSlack)} \cup
  {WordAdd(INT64_MIN, W64(n)) : n \in 0..PosSlack} \cup
  {WordSub(INT64_MAX, W64(n)) : n \in 0..PosSlack}

\* DecoderBuffer::Init(data, data_size): the buffer refers to the caller's
\* bytes and the position returns to their start.
DecoderBuffer_Init(d) ==
  /\ dec_op.name = "DecoderBuffer"
  /\ data_' = d
  /\ data_size_' = W64(Len(d))
  /\ pos_' = W64(0)
  /\ dec_op' = [name |-> "Init", size |-> W64(Len(d)), pos |-> pos_, bits |-> bit_offset_]
  /\ dec_ret' = TRUE
  /\ dec_oob' = FALSE
  /\ UNCHANGED <<bit_mode_, bit_buffer_, bit_buffer_end_, bit_offset_, dec_out,
                 dec_crashed>>
  /\ UNCHANGED NotDec

\* if (data_size_ < static_cast<int64_t>(pos_ + size)) return false;
\* pos_ is converted to size_t, the sum wraps at 2^64 and is read back as signed.
BoundsCheckFails(size) == SLess(data_size_, WordAdd(pos_, size))

\* memcpy(out, data_ + pos_, size).  Inside the data it delivers the bytes; a
\* copy that leaves the data is undefined: the process is killed, or bytes
\* that are not the buffer's reach the destination.
Memcpy(size) ==
  IF size = W64(0)
  THEN dec_out' = <<>> /\ dec_oob' = FALSE /\ dec_crashed' = FALSE
  ELSE IF CopyInData(size)
  THEN dec_out' = CopiedBytes(size) /\ dec_oob' = FALSE /\ dec_crashed' = FALSE
  ELSE /\ dec_oob' = TRUE
       /\ \/ dec_out' = Garbage /\ dec_crashed' = FALSE
          \/ dec_out' = Untouched /\ dec_crashed' = TRUE

\* A call on an initialised buffer, with a destination nothing was written to yet.
DecCall(name, size) ==
  /\ ~dec_crashed
  /\ dec_op.name # "DecoderBuffer"
  /\ pos_ \in TrackedPos
  /\ dec_op' = [name |-> name, size |-> size, pos |-> pos_, bits |-> bit_offset_]
  /\ UNCHANGED NotDec

\* int64_t decoded_size() const { return pos_; }
decoded_size == pos_
\* int64_t remaining_size() const { return data_size_ - pos_; }
remaining_size == WordSub(data_size_, pos_)

\* A Peek that moves the position as Decode does.
Peek_Advancing(size) ==
  /\ DecCall("Peek", size)
  /\ IF BoundsCheckFails(size)
     THEN dec_ret' = FALSE /\ dec_oob' = FALSE /\ dec_out' = Untouched
          /\ UNCHANGED <<dec_crashed, pos_>>
     ELSE /\ Memcpy(size)
          /\ dec_ret' = ~dec_crashed'
          /\ pos_' = IF dec_crashed' THEN pos_ ELSE WordAdd(pos_, size)
  /\ UNCHANGED <<data_, data_size_, bit_mode_, bit_buffer_, bit_buffer_end_,
                 bit_offset_>>
\* bool Peek(void *out_data, size_t size_to_peek)
Peek(size) ==
  /\ DecCall("Peek", size)
  /\ IF BoundsCheckFails(size)
     THEN dec_ret' = FALSE /\ dec_oob' = FALSE /\ dec_out' = Untouched
          /\ UNCHANGED dec_crashed
     ELSE Memcpy(size) /\ dec_ret' = ~dec_crashed'
  /\ UNCHANGED <<data_, data_size_, pos_, bit_mode_, bit_buffer_, bit_buffer_end_,
                 bit_offset_>>

\* template <typename T> bool Peek(T *out_val), sizeof(T) = n
PeekT(n) ==
  /\ DecCall("PeekT", W64(n))
  /\ IF BoundsCheckFails(W64(n))
     THEN dec_ret' = FALSE /\ dec_oob' = FALSE /\ dec_out' = Untouched
          /\ UNCHANGED dec_crashed
     ELSE Memcpy(W64(n)) /\ dec_ret' = ~dec_crashed'
  /\ UNCHANGED <<data_, data_size_, pos_, bit_mode_, bit_buffer_, bit_buffer_end_,
                 bit_offset_>>

\* bool Decode(void *out_data, size_t size_to_decode)
Decode(size) ==
  /\ DecCall("Decode", size)
  /\ IF BoundsCheckFails(size)
     THEN dec_ret' = FALSE /\ dec_oob' = FALSE /\ dec_out' = Untouched
          /\ UNCHANGED <<dec_crashed, pos_>>
     ELSE /\ Memcpy(size)
          /\ dec_ret' = ~dec_crashed'
          /\ pos_' = IF dec_crashed' THEN pos_ ELSE WordAdd(pos_, size)
  /\ UNCHANGED <<data_, data_size_, bit_mode_, bit_buffer_, bit_buffer_end_,
                 bit_offset_>>

\* template <typename T> bool Decode(T *out_val), sizeof(T) = n:
\* if (!Peek(out_val)) return false; pos_ += sizeof(T);
DecodeT(n) ==
  /\ DecCall("DecodeT", W64(n))
  /\ IF BoundsCheckFails(W64(n))
     THEN dec_ret' = FALSE /\ dec_oob' = FALSE /\ dec_out' = Untouched
          /\ UNCHANGED <<dec_crashed, pos_>>
     ELSE /\ Memcpy(W64(n))
          /\ dec_ret' = ~dec_crashed'
          /\ pos_' = IF dec_crashed' THEN pos_ ELSE WordAdd(pos_, W64(n))
  /\ UNCHANGED <<data_, data_size_, bit_mode_, bit_buffer_, bit_buffer_end_,
                 bit_offset_>>

\* void Advance(int64_t bytes) { pos_ += bytes; }  A signed overflow is
\* undefined: the sum wraps, or the build traps.
Advance(bytes) ==
  /\ DecCall("Advance", bytes)
  /\ IF SAddOverflows(pos_, bytes)
     THEN \/ pos_' = WordAdd(pos_, bytes) /\ dec_crashed' = FALSE
          \/ pos_' = pos_ /\ dec_crashed' = TRUE
     ELSE pos_' = WordAdd(pos_, bytes) /\ dec_crashed' = FALSE
  /\ dec_ret' = TRUE
  /\ dec_oob' = FALSE
  /\ dec_out' = Untouched
  /\ UNCHANGED <<data_, data_size_, bit_mode_, bit_buffer_, bit_buffer_end_,
                 bit_offset_>>

\* void StartDecodingFrom(int64_t offset) { pos_ = offset; }
StartDecodingFrom(offset) ==
  /\ DecCall("StartDecodingFrom", offset)
  /\ pos_' = offset
  /\ dec_ret' = TRUE
  /\ dec_oob' = FALSE
  /\ dec_out' = Untouched
  /\ UNCHANGED <<data_, data_size_, bit_mode_, bit_buffer_, bit_buffer_end_,
                 bit_offset_, dec_crashed>>

\* uint32_t nbits arguments: 33 is the first count GetBits rejects.
NBitsSamples == {0, 1, 8, 9, 17, 32, 33}

\* bool StartBitDecoding(bool decode_size, uint64_t *out_size), called with
\* decode_size = false: bit_decoder_.reset(data_head(), remaining_size()).
StartBitDecoding ==
  /\ DecCall("StartBitDecoding", W64(0))
  /\ PosInData
  /\ bit_mode_' = TRUE
  /\ bit_buffer_' = SmallVal(pos_)
  /\ bit_buffer_end_' = SmallVal(data_size_)
  /\ bit_offset_' = 0
  /\ dec_ret' = TRUE
  /\ dec_oob' = FALSE
  /\ dec_out' = Untouched
  /\ UNCHANGED <<data_, data_size_, pos_, dec_crashed>>

\* BitDecoder::BitsDecoded
BitsDecoded == bit_offset_
\* BitDecoder::AvailBits: ((bit_buffer_end_ - bit_buffer_) * 8) - bit_offset_
AvailBits == ((bit_buffer_end_ - bit_buffer_) * 8) - bit_offset_

\* void EndBitDecoding(): the position moves past the bytes the bits took.
EndBitDecoding ==
  /\ DecCall("EndBitDecoding", W64(0))
  /\ bit_mode_
  /\ bit_mode_' = FALSE
  /\ pos_' = WordAdd(pos_, W64((BitsDecoded + 7) \div 8))
  /\ dec_ret' = TRUE
  /\ dec_oob' = FALSE
  /\ dec_out' = Untouched
  /\ UNCHANGED <<data_, data_size_, bit_buffer_, bit_buffer_end_, bit_offset_,
                 dec_crashed>>

\* BitDecoder::GetBit at bit offset |off|: the bit and the offset after it.
\* Past the end of the bit buffer it returns 0 and does not move.
GetBit(off) ==
  LET byte_offset == off \div 8
      bit_shift == off % 8
  IN IF bit_buffer_ + byte_offset < bit_buffer_end_
     THEN [bit |-> (data_[bit_buffer_ + byte_offset + 1] \div 2^bit_shift) % 2,
           off |-> off + 1]
     ELSE [bit |-> 0, off |-> off]

\* value |= b << bit, on a uint32_t whose bit |bit| is still clear.
OrBit(value, b, bit) ==
  IF bit < 16 THEN <<value[1] + b * 2^bit, value[2]>>
  ELSE <<value[1], value[2] + b * 2^(bit - 16)>>

\* The loop of BitDecoder::GetBits:
\*   for (bit = 0; bit < nbits; ++bit) value |= GetBit() << bit;
RECURSIVE GetBitsLoop(_, _, _, _)
GetBitsLoop(bit, nbits, off, value) ==
  IF bit >= nbits THEN [value |-> value, off |-> off]
  ELSE LET g == GetBit(off)
       IN GetBitsLoop(bit + 1, nbits, g.off, OrBit(value, g.bit, bit))

\* bool BitDecoder::GetBits(uint32_t nbits, uint32_t *x)
GetBits(nbits) ==
  IF nbits > 32 THEN [ok |-> FALSE, value |-> W32(0), off |-> bit_offset_]
  ELSE LET r == GetBitsLoop(0, nbits, bit_offset_, W32(0))
       IN [ok |-> TRUE, value |-> r.value, off |-> r.off]

\* DecodeLeastSignificantBits32 without the test of bit_decoder_active().
DecodeLeastSignificantBits32_NoModeCheck(nbits) ==
  /\ DecCall("DecodeLeastSignificantBits32", W64(nbits))
  /\ LET r == GetBits(nbits)
     IN /\ dec_ret' = r.ok
        /\ dec_out' = IF r.ok THEN r.value ELSE Untouched
        /\ bit_offset_' = r.off
  /\ dec_oob' = FALSE
  /\ UNCHANGED <<data_, data_size_, pos_, bit_mode_, bit_buffer_, bit_buffer_end_,
                 dec_crashed>>

\* bool DecodeLeastSignificantBits32(uint32_t nbits, uint32_t *out_value)
DecodeLeastSignificantBits32(nbits) ==
  /\ DecCall("DecodeLeastSignificantBits32", W64(nbits))
  /\ IF ~bit_mode_
     THEN dec_ret' = FALSE /\ dec_out' = Untouched /\ UNCHANGED bit_offset_
     ELSE LET r == GetBits(nbits)
          IN /\ dec_ret' = r.ok
             /\ dec_out' = IF r.ok THEN r.value ELSE Untouched
             /\ bit_offset_' = r.off
  /\ dec_oob' = FALSE
  /\ UNCHANGED <<data_, data_size_, pos_, bit_mode_, bit_buffer_, bit_buffer_end_,
                 dec_crashed>>

(***************************************************************************)
(* EncoderBuffer.                                                          *)
(***************************************************************************)
\* Most bytes in an EncoderBuffer to which more are still added.
MaxPlain == 2
\* Most EncodeLeastSignificantBits32 calls in one bit sequence.
MaxWrites == 2

EncInit ==
  /\ buffer_ = <<>>
  /\ bit_encoder_reserved_bytes_ = 0
  /\ encode_bit_sequence_size_ = FALSE
  /\ enc_bit_buffer_ = 0
  /\ enc_bit_offset_ = 0
  /\ enc_ret = TRUE
  /\ enc_op = [name |-> "EncoderBuffer", active |-> FALSE]
  /\ enc_oob = FALSE
  /\ enc_crashed = FALSE

\* bool bit_encoder_active() const { return bit_encoder_reserved_bytes_ > 0; }
bit_encoder_active == bit_encoder_reserved_bytes_ > 0

EncCall(name) ==
  /\ ~enc_crashed
  /\ enc_op' = [name |-> name, active |-> bit_encoder_active]
  /\ UNCHANGED NotEnc

\* Encode without the test of bit_encoder_active().
Encode_NoModeCheck(d) ==
  /\ EncCall("Encode")
  /\ enc_ret' = TRUE /\ buffer_' = buffer_ \o d
  /\ UNCHANGED <<bit_encoder_reserved_bytes_, encode_bit_sequence_size_,
                 enc_bit_buffer_, enc_bit_offset_, enc_oob, enc_crashed>>

\* bool Encode(const void *data, size_t data_size)
Encode(d) ==
  /\ EncCall("Encode")
  /\ IF bit_encoder_active
     THEN enc_ret' = FALSE /\ UNCHANGED buffer_
     ELSE enc_ret' = TRUE /\ buffer_' = buffer_ \o d
  /\ UNCHANGED <<bit_encoder_reserved_bytes_, encode_bit_sequence_size_,
                 enc_bit_buffer_, enc_bit_offset_, enc_oob, enc_crashed>>

\* template <typename T> bool Encode(const T &data): the sizeof(T) bytes of data
EncodeT(d) ==
  /\ EncCall("EncodeT")
  /\ IF bit_encoder_active
     THEN enc_ret' = FALSE /\ UNCHANGED buffer_
     ELSE enc_ret' = TRUE /\ buffer_' = buffer_ \o d
  /\ UNCHANGED <<bit_encoder_reserved_bytes_, encode_bit_sequence_size_,
                 enc_bit_buffer_, enc_bit_offset_, enc_oob, enc_crashed>>

\* sizeof(uint64_t): the bytes StartBitEncoding keeps for the size of the sequence.
SizeSlot == 8

Zeros(n) == [i \in 1..n |-> 0]

\* bool StartBitEncoding(int64_t required_bits, bool encode_size): refused
\* while a bit sequence is open and for a request of no bits (bit mode is
\* bit_encoder_reserved_bytes_ > 0); else the buffer grows by the size slot,
\* when asked for, and by the bytes of required_bits, where the bits will go.
StartBitEncoding(required_bits, encode_size) ==
  /\ EncCall("StartBitEncoding")
  /\ IF bit_encoder_active \/ required_bits <= 0
     THEN /\ enc_ret' = FALSE
          /\ UNCHANGED <<buffer_, bit_encoder_reserved_bytes_, encode_bit_sequence_size_,
                         enc_bit_buffer_, enc_bit_offset_>>
     ELSE LET required_bytes == (required_bits + 7) \div 8
              buffer_start_size == Len(buffer_) + (IF encode_size THEN SizeSlot ELSE 0)
          IN /\ enc_ret' = TRUE
             /\ encode_bit_sequence_size_' = encode_size
             /\ bit_encoder_reserved_bytes_' = required_bytes
             /\ buffer_' = buffer_ \o Zeros(buffer_start_size + required_bytes - Len(buffer_))
             /\ enc_bit_buffer_' = buffer_start_size
             /\ enc_bit_offset_' = 0
  /\ UNCHANGED <<enc_oob, enc_crashed>>

\* Bit |bit| of a uint32_t: (data >> bit) & 1
BitOf(value, bit) == (value[1 + (bit \div 16)] \div 2^(bit % 16)) % 2

\* bit_shift of PutBit counted from the most significant bit of the byte.
PutBitShift_MsbFirst(off) == 7 - (off % 8)

\* BitEncoder::PutBit(value), with bit_offset_ = off:
\*   byte_offset = bit_offset_ / 8;  bit_shift = bit_offset_ % 8;
\*   bit_buffer_[byte_offset] &= ~(1 << bit_shift);
\*   bit_buffer_[byte_offset] |= value << bit_shift;
PutBitByte(off) == off \div 8
PutBitShift(off) == off % 8

\* BitEncoder::PutBits(data, nbits):
\*   for (bit = 0; bit < nbits; ++bit) PutBit((data >> bit) & 1);
\* Round |bit| of the loop runs PutBit at offset off + bit; a bit of the
\* buffer that a round wrote holds that round's value, every other bit is as
\* it was.  A byte past the end of the vector is not the buffer's to write.
PutBits(data, nbits, buf, off) ==
  LET Rounds == 0..(nbits - 1)
      Writers(idx, s) ==
        {bit \in Rounds : /\ enc_bit_buffer_ + PutBitByte(off + bit) + 1 = idx
                          /\ PutBitShift(off + bit) = s}
      NewBit(idx, s) ==
        IF Writers(idx, s) = {} THEN (buf[idx] \div 2^s) % 2
        ELSE BitOf(data, CHOOSE bit \in Writers(idx, s) :
                           \A other \in Writers(idx, s) : other <= bit)
      NewByte(idx) ==
        NewBit(idx, 0) + 2 * NewBit(idx, 1) + 4 * NewBit(idx, 2) + 8 * NewBit(idx, 3)
          + 16 * NewBit(idx, 4) + 32 * NewBit(idx, 5) + 64 * NewBit(idx, 6)
          + 128 * NewBit(idx, 7)
  IN [buf |-> [idx \in 1..Len(buf) |-> NewByte(idx)],
      off |-> off + nbits,
      oob |-> \E bit \in Rounds : enc_bit_buffer_ + PutBitByte(off + bit) + 1 > Len(buf)]

\* bool EncodeLeastSignificantBits32(int nbits, uint32_t value).  Bits put
\* past the end of the vector are undefined behaviour: memory that is not the
\* buffer's is overwritten, or the process is killed.
EncodeLeastSignificantBits32(nbits, value) ==
  /\ EncCall("EncodeLeastSignificantBits32")
  /\ IF ~bit_encoder_active
     THEN /\ enc_ret' = FALSE
          /\ UNCHANGED <<buffer_, enc_bit_offset_, enc_oob, enc_crashed>>
     ELSE LET w == PutBits(value, nbits, buffer_, enc_bit_offset_)
          IN IF w.oob
             THEN \/ /\ buffer_' = w.buf /\ enc_bit_offset_' = w.off
                     /\ enc_oob' = TRUE /\ enc_ret' = TRUE /\ UNCHANGED enc_crashed
                  \/ /\ enc_crashed' = TRUE /\ enc_oob' = TRUE
                     /\ UNCHANGED <<buffer_, enc_bit_offset_, enc_ret>>
             ELSE /\ buffer_' = w.buf /\ enc_bit_offset_' = w.off /\ enc_ret' = TRUE
                  /\ UNCHANGED <<enc_oob, enc_crashed>>
  /\ UNCHANGED <<bit_encoder_reserved_bytes_, encode_bit_sequence_size_, enc_bit_buffer_>>

\* EncodeVarint: 7 bits a byte, least significant first, the high bit set on
\* every byte but the last.
RECURSIVE EncodeVarint(_)
EncodeVarint(x) ==
  IF x >= 128 THEN <<(x % 128) + 128>> \o EncodeVarint(x \div 128) ELSE <<x>>

\* buf resized to n bytes: cut, or grown with zero bytes.
Resized(buf, n) ==
  IF n <= Len(buf) THEN SubSeq(buf, 1, n) ELSE buf \o Zeros(n - Len(buf))

\* void EndBitEncoding(): the size, when asked for, is stored as a varint in
\* the slot kept for it and the bit bytes are moved up to it; the buffer is
\* cut to the bytes the bits took.
EndBitEncoding ==
  /\ EncCall("EndBitEncoding")
  /\ IF ~bit_encoder_active
     THEN UNCHANGED <<buffer_, bit_encoder_reserved_bytes_>>
     ELSE LET encoded_bytes == (enc_bit_offset_ + 7) \div 8
              grown == Resized(buffer_, enc_bit_buffer_ + encoded_bytes)
              bits == SubSeq(grown, enc_bit_buffer_ + 1, enc_bit_buffer_ + encoded_bytes)
          IN /\ buffer_' =
                  IF encode_bit_sequence_size_
                  THEN SubSeq(buffer_, 1, enc_bit_buffer_ - SizeSlot)
                         \o EncodeVarint(encoded_bytes) \o bits
                  ELSE grown
             /\ bit_encoder_reserved_bytes_' = 0
  /\ enc_ret' = TRUE
  /\ UNCHANGED <<encode_bit_sequence_size_, enc_bit_buffer_, enc_bit_offset_, enc_oob,
                 enc_crashed>>

\* The byte sequences of the byte-level writes.
PlainSamples == {<<>>, <<165>>, <<90, 165>>}
TypedSamples == {[i \in 1..n |-> 165] : n \in {1, 2}}
RequiredBitsSamples == {-1, 0, 9}
EncNBitsSamples == {1, 9}
U32Samples == {<<1, 0>>, <<LimbMax, LimbMax>>, <<42405, 33153>>}
EncValueSamples == {<<LimbMax, LimbMax>>, <<42405, 33153>>}

(***************************************************************************)
(* Symbol maps (bit_utils.h), IntTypeT = int32_t / uint32_t.               *)
(***************************************************************************)
\* x << 1 and x >> 1 on a uint32_t.
Shl1(x) == WordAdd(x, x)
Shr1(x) == <<(x[1] \div 2) + (x[2] % 2) * LimbSign, x[2] \div 2>>

\* ConvertSignedIntToSymbol that leaves out ret |= 1.
ConvertSignedIntToSymbol_NoSignBit(val) ==
  IF ~IsNeg(val) THEN Shl1(val) ELSE Shl1(WordNeg(WordAdd(val, W32(1))))

\* ConvertSignedIntToSymbol(IntTypeT val):
\*   if (val >= 0) return static_cast<UnsignedType>(val) << 1;
\*   val = -(val + 1); ret = static_cast<UnsignedType>(val); ret <<= 1; ret |= 1;
ConvertSignedIntToSymbol(val) ==
  IF ~IsNeg(val) THEN Shl1(val)
  ELSE LET v == WordNeg(WordAdd(val, W32(1)))
           ret == Shl1(v)
       IN <<ret[1] + 1, ret[2]>>

\* ConvertSymbolToSignedInt that negates (val + 1) >> 1 in 32 bit arithmetic.
ConvertSymbolToSignedInt_Wrapping(val) ==
  IF val[1] % 2 = 0 THEN Shr1(val) ELSE WordNeg(Shr1(WordAdd(val, W32(1))))

\* ConvertSymbolToSignedInt(IntTypeT val):
\*   is_positive = !(val & 1); val >>= 1; if (is_positive) return val;
\*   ret = static_cast<SignedType>(val); ret = -ret - 1;
ConvertSymbolToSignedInt(val) ==
  LET is_positive == val[1] % 2 = 0
      v == Shr1(val)
  IN IF is_positive THEN v ELSE WordSub(WordNeg(v), W32(1))

NotComputed == <<"none">>
\* 32 bit patterns: as int32_t they include INT32_MIN, -1, 0 and INT32_MAX, as
\* uint32_t 0 and 2^32 - 1.
Word32Samples ==
  {<<lo, hi>> : lo \in {0, 1, 2, LimbSign - 1, LimbSign, LimbMax - 1, LimbMax},
                hi \in {0, 1, LimbSign - 1, LimbSign, LimbSign + 1, LimbMax}}

ZzInit ==
  /\ zz_in \in Word32Samples
  /\ zz_sym = NotComputed /\ zz_back = NotComputed /\ zz_dec = NotComputed
ZzIdle ==
  /\ zz_in = W32(0)
  /\ zz_sym = NotComputed /\ zz_back = NotComputed /\ zz_dec = NotComputed

ToSymbol ==
  /\ zz_sym = NotComputed
  /\ zz_sym' = ConvertSignedIntToSymbol(zz_in)
  /\ UNCHANGED <<zz_in, zz_back, zz_dec>> /\ UNCHANGED NotZz
BackToSigned ==
  /\ zz_sym # NotComputed /\ zz_back = NotComputed
  /\ zz_back' = ConvertSymbolToSignedInt(zz_sym)
  /\ UNCHANGED <<zz_in, zz_sym, zz_dec>> /\ UNCHANGED NotZz
ToSigned ==
  /\ zz_dec = NotComputed
  /\ zz_dec' = ConvertSymbolToSignedInt(zz_in)
  /\ UNCHANGED <<zz_in, zz_sym, zz_back>> /\ UNCHANGED NotZz

ZzNext == ToSymbol \/ BackToSigned \/ ToSigned

(***************************************************************************)
(* Mesh: faces and per-attribute data.                                      *)
(***************************************************************************)
MaxPoints == 2
MaxFaces == 2
MaxAtts == 3

MESH_VERTEX_ATTRIBUTE == "MESH_VERTEX_ATTRIBUTE"
MESH_CORNER_ATTRIBUTE == "MESH_CORNER_ATTRIBUTE"
MESH_FACE_ATTRIBUTE == "MESH_FACE_ATTRIBUTE"
MeshAttributeElementType ==
  {MESH_VERTEX_ATTRIBUTE, MESH_CORNER_ATTRIBUTE, MESH_FACE_ATTRIBUTE}

\* Face(): three value-initialised point indices.
DefaultFace == <<0, 0, 0>>
\* AttributeData() : element_type(MESH_CORNER_ATTRIBUTE)
DefaultAttributeData == MESH_CORNER_ATTRIBUTE
FaceSamples == {<<0, 1, 2>>, <<1, 0, 1>>, DefaultFace}

\* uint32_t to size_t, and static_cast<uint32_t> of a size_t.
ToSizeT(i) == i \o <<0, 0>>
ToUint32(n) == SubSeq(n, 1, 2)
\* kInvalidFaceIndex: the largest uint32_t.
kInvalidFaceIndex == <<LimbMax, LimbMax>>
\* FaceIndex arguments: the first indices, the largest index and the invalid one.
FaceIndexSamples ==
  {W32(n) : n \in 0..(MaxFaces - 1)} \cup {<<LimbMax - 1, LimbMax>>, kInvalidFaceIndex}

\* A vector of faces: every index below the size that is not listed holds Face().
NoFaces == [size |-> W64(0), at |-> [i \in {} |-> DefaultFace]]
\* faces_[i]
FaceAt(v, i) == IF i \in DOMAIN v.at THEN v.at[i] ELSE DefaultFace
\* faces_[i] = f, for an index below the size
Stored(v, i, f) ==
  [v EXCEPT !.at = [j \in IF f = DefaultFace THEN DOMAIN v.at \ {i}
                           ELSE DOMAIN v.at \cup {i}
                    |-> IF j = i THEN f ELSE v.at[j]]]
\* faces_.resize(n, Face())
ResizedFaces(v, n) ==
  [size |-> n, at |-> [j \in {k \in DOMAIN v.at : ULess(k, n)} |-> v.at[j]]]

\* Mesh(): no points, no faces, no attribute data.
MeshInit ==
  /\ num_points_ = 0
  /\ attributes_ = 0
  /\ faces_ = NoFaces
  /\ attribute_data_ = <<>>
  /\ mesh_op = [name |-> "Mesh", arg |-> 0, data |-> <<>>, faces |-> NoFaces]
  /\ mesh_ub = FALSE

MeshCall(name, arg) ==
  /\ ~mesh_ub
  /\ mesh_op' = [name |-> name, arg |-> arg, data |-> attribute_data_, faces |-> faces_]
  /\ UNCHANGED NotMesh

\* FaceIndex num_faces() const { return FaceIndex(faces_.size()); }
num_faces == ToUint32(faces_.size)
\* const Face &GetFace(FaceIndex face_id) const, for a face_id below the size
GetFace(face_id) == FaceAt(faces_, ToSizeT(face_id))

\* std::vector::resize(n, val)
ResizedWith(v, n, val) ==
  IF n <= Len(v) THEN SubSeq(v, 1, n) ELSE v \o [i \in 1..(n - Len(v)) |-> val]

\* PointCloud::set_num_points(num)
set_num_points(num) ==
  /\ MeshCall("set_num_points", num)
  /\ num_points_' = num
  /\ UNCHANGED <<attributes_, faces_, attribute_data_, mesh_ub>>

\* void AddFace(const Face &face) { faces_.push_back(face); }
AddFace(face) ==
  /\ MeshCall("AddFace", face)
  /\ faces_' = Stored(ResizedFaces(faces_, WordAdd(faces_.size, W64(1))), faces_.size, face)
  /\ UNCHANGED <<num_points_, attributes_, attribute_data_, mesh_ub>>

\* SetFace that resizes whether or not face_id is below the size.
SetFace_AlwaysResize(face_id, face) ==
  /\ MeshCall("SetFace", <<face_id, face>>)
  /\ LET grown == ResizedFaces(faces_, ToSizeT(WordAdd(face_id, W32(1))))
     IN IF ULess(ToSizeT(face_id), grown.size)
        THEN faces_' = Stored(grown, ToSizeT(face_id), face) /\ UNCHANGED mesh_ub
        ELSE faces_' = grown /\ mesh_ub' = TRUE
  /\ UNCHANGED <<num_points_, attributes_, attribute_data_>>
\* void SetFace(FaceIndex face_id, const Face &face):
\*   if (face_id >= static_cast<uint32_t>(faces_.size()))
\*     faces_.resize(face_id.value() + 1, Face());
\*   faces_[face_id] = face;
\* face_id.value() + 1 is a uint32_t sum; faces_[face_id] is not range checked.
SetFace(face_id, face) ==
  /\ MeshCall("SetFace", <<face_id, face>>)
  /\ LET grown == IF ~ULess(face_id, ToUint32(faces_.size))
                  THEN ResizedFaces(faces_, ToSizeT(WordAdd(face_id, W32(1))))
                  ELSE faces_
     IN IF ULess(ToSizeT(face_id), grown.size)
        THEN faces_' = Stored(grown, ToSizeT(face_id), face) /\ UNCHANGED mesh_ub
        ELSE faces_' = grown /\ mesh_ub' = TRUE
  /\ UNCHANGED <<num_points_, attributes_, attribute_data_>>

\* void SetNumFaces(int num_faces) { faces_.resize(num_faces, Face()); }
SetNumFaces(n) ==
  /\ MeshCall("SetNumFaces", n)
  /\ faces_' = ResizedFaces(faces_, W64(n))
  /\ UNCHANGED <<num_points_, attributes_, attribute_data_, mesh_ub>>

\* kInvalidPointIndex and kInvalidCornerIndex: the largest uint32_t.
kInvalidPointIndex == <<LimbMax, LimbMax>>
kInvalidCornerIndex == <<LimbMax, LimbMax>>
\* A uint32_t passed as an int: values from 2^31 on become negative.
AsInt(w) ==
  IF w[2] >= LimbSign THEN w[1] + LimbBase * (w[2] - LimbBase)
  ELSE w[1] + LimbBase * w[2]
\* int corner arguments, and CornerIndex arguments.
IntCornerSamples == {-2147483647, -1, 2147483647} \cup 0..(3 * MaxFaces)
CornerIndexSamples == {W32(1), <<0, LimbSign>>, kInvalidCornerIndex}

\* CornerToPointId that reads the first corner of the face.
CornerToPointId_FirstCorner(ci) ==
  IF ci < 0 \/ W32(ci) = kInvalidCornerIndex THEN kInvalidPointIndex
  ELSE W32(FaceAt(faces_, W64(ci \div 3))[1])
\* inline PointIndex CornerToPointId(int ci) const:
\*   if (ci < 0 || static_cast<uint32_t>(ci) == kInvalidCornerIndex.value())
\*     return kInvalidPointIndex;
\*   return this->face(FaceIndex(ci / 3))[ci % 3];
CornerToPointId(ci) ==
  IF ci < 0 \/ W32(ci) = kInvalidCornerIndex THEN kInvalidPointIndex
  ELSE W32(FaceAt(faces_, W64(ci \div 3))[(ci % 3) + 1])
\* face(FaceIndex(ci / 3)) is faces_[ci / 3], not range checked.
ReadsInsideFaces(ci) == ci < 0 \/ ULess(W64(ci \div 3), faces_.size)

\* A call of CornerToPointId(int ci); the value returned is kept with the
\* argument.
CornerToPointIdCall(ci) ==
  /\ MeshCall("CornerToPointId",
              <<ci, IF ReadsInsideFaces(ci) THEN CornerToPointId(ci) ELSE Garbage>>)
  /\ mesh_ub' = ~ReadsInsideFaces(ci)
  /\ UNCHANGED <<num_points_, attributes_, faces_, attribute_data_>>
\* inline PointIndex CornerToPointId(CornerIndex ci) const
\*   { return this->CornerToPointId(ci.value()); }
CornerToPointIdOfCornerIndex(ci) == CornerToPointIdCall(AsInt(ci))

\* MeshAttributeElementType GetAttributeElementType(int att_id) const, for
\* an att_id inside attribute_data_.
GetAttributeElementType(att_id) == attribute_data_[att_id + 1]
InAttributeData(att_id) == att_id >= 0 /\ att_id < Len(attribute_data_)

\* void SetAttributeElementType(int att_id, MeshAttributeElementType et):
\* attribute_data_[att_id] is not range checked.
SetAttributeElementType(att_id, et) ==
  /\ MeshCall("SetAttributeElementType", att_id)
  /\ IF InAttributeData(att_id)
     THEN /\ attribute_data_' = [attribute_data_ EXCEPT ![att_id + 1] = et]
          /\ UNCHANGED mesh_ub
     ELSE /\ mesh_ub' = TRUE
          /\ UNCHANGED attribute_data_
  /\ UNCHANGED <<num_points_, attributes_, faces_>>

\* std::vector::erase of the element at index att_id.
Erased(v, att_id) == SubSeq(v, 1, att_id) \o SubSeq(v, att_id + 2, Len(v))

\* PointCloud: int num_attributes() const
num_attributes == attributes_
\* PointCloud::AddAttribute(pa): the attribute is appended and its id, the
\* number of attributes before the call, is returned.
PointCloud_AddAttribute == [id |-> attributes_, attributes |-> attributes_ + 1]
\* PointCloud::DeleteAttribute(att_id): the attribute is removed, when there
\* is one with this id.
PointCloud_DeleteAttribute(att_id) ==
  IF att_id >= 0 /\ att_id < attributes_ THEN attributes_ - 1 ELSE attributes_

\* mesh->AddAttribute(std::move(pa)): Mesh does not override AddAttribute,
\* the call is PointCloud's and attribute_data_ is not touched.
AddAttribute ==
  /\ MeshCall("AddAttribute", PointCloud_AddAttribute.id)
  /\ attributes_' = PointCloud_AddAttribute.attributes
  /\ UNCHANGED <<num_points_, faces_, attribute_data_, mesh_ub>>

\* void DeleteAttribute(int att_id): after PointCloud::DeleteAttribute, the
\* entry of attribute_data_ at att_id is erased and the later ones move down.
DeleteAttribute(att_id) ==
  /\ MeshCall("DeleteAttribute", att_id)
  /\ attributes_' = PointCloud_DeleteAttribute(att_id)
  /\ attribute_data_' = IF InAttributeData(att_id)
                        THEN Erased(attribute_data_, att_id)
                        ELSE attribute_data_
  /\ UNCHANGED <<num_points_, faces_, mesh_ub>>

\* void AddAttributeData(int att_id, MeshAttributeElementType element_type)
AddAttributeData(att_id, element_type) ==
  /\ MeshCall("AddAttributeData", att_id)
  /\ LET grown == IF att_id >= Len(attribute_data_)
                  THEN ResizedWith(attribute_data_, att_id + 1, DefaultAttributeData)
                  ELSE attribute_data_
     IN attribute_data_' = [grown EXCEPT ![att_id + 1] = element_type]
  /\ UNCHANGED <<num_points_, attributes_, faces_, mesh_ub>>

MeshNext ==
  \/ \E num \in 0..MaxPoints : set_num_points(num)
  \/ \E face \in FaceSamples :
       ULess(faces_.size, W64(MaxFaces)) /\ AddFace(face)
  \/ \E face_id \in FaceIndexSamples, face \in FaceSamples : SetFace(face_id, face)
  \/ \E n \in 0..MaxFaces : SetNumFaces(n)
  \/ \E att_id \in 0..(MaxAtts - 1), et \in MeshAttributeElementType :
       SetAttributeElementType(att_id, et)
  \/ \E att_id \in 0..(MaxAtts - 1) : DeleteAttribute(att_id)
  \/ \E att_id \in 0..(MaxAtts - 1), et \in MeshAttributeElementType :
       AddAttributeData(att_id, et)

\* The calls on the faces of a Mesh.
FacesNext ==
  \/ \E face \in FaceSamples :
       ULess(faces_.size, W64(MaxFaces)) /\ AddFace(face)
  \/ \E face_id \in FaceIndexSamples, face \in FaceSamples : SetFace(face_id, face)
  \/ \E n \in 0..MaxFaces : SetNumFaces(n)
  \/ \E ci \in IntCornerSamples : CornerToPointIdCall(ci)
  \/ \E ci \in CornerIndexSamples : CornerToPointIdOfCornerIndex(ci)

(***************************************************************************)
(* The codec under the API: framing and the sequential codec.              *)
(***************************************************************************)
\* A geometry: its kind, point count, faces and whether it has positions.
Geom(kind, n, faces, has_position) ==
  [kind |-> kind, num_points |-> n, faces |-> faces, has_position |-> has_position]
\* A null std::unique_ptr, and the geometry a default constructed
\* ModernMesh / ModernPointCloud owns.
NullGeom == Geom("null", 0, <<>>, FALSE)
EmptyGeom(kind) == Geom(kind, 0, <<>>, FALSE)

RECURSIVE FaceSeqsUpTo(_)
FaceSeqsUpTo(n) ==
  IF n = 0 THEN {<<>>}
  ELSE LET shorter == FaceSeqsUpTo(n - 1)
       IN shorter \cup {Append(fs, f) : fs \in shorter, f \in FaceSamples}
GeomSamples ==
  {Geom("mesh", n, fs, p) : n \in 0..(MaxPoints + 1), fs \in FaceSeqsUpTo(MaxFaces),
                            p \in BOOLEAN}
  \cup {Geom("pc", n, <<>>, p) : n \in 0..(MaxPoints + 1), p \in BOOLEAN}
LevelSamples == {-1, 0, 7, 10}

Magic == <<68, 82, 65, 67, 79>>
MajorVersion == 2
MinorVersion == 2
HeaderSize == 11
\* encoder type: 0 = pointcloud-sequential, 1 = mesh-sequential
EncoderType(kind) == IF kind = "pc" THEN 0 ELSE 1
\* encoder method: the fastest speed stores the face indices as they are (0),
\* the other speeds store their deltas across faces (1).
EncoderMethod(level) == IF level = 10 THEN 0 ELSE 1
Header(kind, level) ==
  Magic \o <<MajorVersion, MinorVersion, EncoderType(kind), EncoderMethod(level), 0, 0>>

\* A small signed integer as an unsigned symbol, and back.
Signed(w) == IF IsNeg(w) THEN 0 - SmallVal(WordNeg(w)) ELSE SmallVal(w)
Symbol(d) == SmallVal(ConvertSignedIntToSymbol(W32(d)))
FromSymbol(u) == Signed(ConvertSymbolToSignedInt(W32(u)))

\* The face block: point index triples as varints, delta coded across faces.
RECURSIVE FaceBlock(_, _, _)
FaceBlock(faces, prev, method) ==
  IF faces = <<>> THEN <<>>
  ELSE LET f == Head(faces)
           Coded(c) == IF method = 1 THEN Symbol(f[c] - prev[c]) ELSE f[c]
       IN EncodeVarint(Coded(1)) \o EncodeVarint(Coded(2)) \o EncodeVarint(Coded(3))
            \o FaceBlock(Tail(faces), f, method)
\* The quantized positions, a byte a point.
PositionBlock(n) == [i \in 1..n |-> (37 * i) % 256]

\* The encoder takes a geometry that is not empty, has positions and whose
\* face indices are below its point count, with a speed in 0..10.
Accepts(g, level) ==
  /\ level \in 0..10
  /\ g.has_position /\ g.num_points > 0
  /\ \A f \in 1..Len(g.faces) : \A c \in 1..3 : g.faces[f][c] < g.num_points
WireOf(g, level) ==
  Header(g.kind, level) \o EncodeVarint(g.num_points)
    \o (IF g.kind = "mesh"
        THEN EncodeVarint(Len(g.faces))
               \o FaceBlock(g.faces, DefaultFace, EncoderMethod(level))
        ELSE <<>>)
    \o PositionBlock(g.num_points)

Under(ok, code, buffer, value) ==
  [ok |-> ok, code |-> code, buffer |-> buffer, value |-> value]
\* Encoder::EncodeMeshToBuffer / EncodePointCloudToBuffer: the status and the
\* EncoderBuffer.  A refused geometry leaves the buffer empty or with the
\* bytes written before the refusal.
EncodeToBuffer(g, level) ==
  IF Accepts(g, level)
  THEN {Under(TRUE, "OK", WireOf(g, level), NullGeom)}
  ELSE {Under(FALSE, "InvalidParameter", b, NullGeom) :
          b \in {<<>>, Header(g.kind, level)}}

\* A varint read at |pos| (from 0): its value and the position after it.
RECURSIVE DecodeVarint(_, _)
DecodeVarint(bytes, pos) ==
  IF pos >= Len(bytes) THEN [ok |-> FALSE, value |-> 0, pos |-> pos]
  ELSE LET b == bytes[pos + 1]
       IN IF b < 128 THEN [ok |-> TRUE, value |-> b, pos |-> pos + 1]
          ELSE LET rest == DecodeVarint(bytes, pos + 1)
               IN [ok |-> rest.ok, value |-> (b - 128) + 128 * rest.value,
                   pos |-> rest.pos]

\* |count| faces read at |pos|: every index must be a point of the geometry.
RECURSIVE DecodeFaces(_, _, _, _, _, _)
DecodeFaces(bytes, pos, count, prev, method, n) ==
  IF count = 0 THEN [code |-> "OK", faces |-> <<>>, pos |-> pos]
  ELSE LET a == DecodeVarint(bytes, pos)
           b == DecodeVarint(bytes, a.pos)
           c == DecodeVarint(bytes, b.pos)
           Index(v, k) == IF method = 1 THEN prev[k] + FromSymbol(v) ELSE v
           f == <<Index(a.value, 1), Index(b.value, 2), Index(c.value, 3)>>
       IN IF ~(a.ok /\ b.ok /\ c.ok)
          THEN [code |-> "BufferUnderflow", faces |-> <<>>, pos |-> pos]
          ELSE IF \E k \in 1..3 : f[k] < 0 \/ f[k] >= n
          THEN [code |-> "CorruptBitstream", faces |-> <<>>, pos |-> pos]
          ELSE LET rest == DecodeFaces(bytes, c.pos, count - 1, f, method, n)
               IN [code |-> rest.code, faces |-> <<f>> \o rest.faces, pos |-> rest.pos]

\* Decoder::DecodeMeshFromBuffer / DecodePointCloudFromBuffer: a StatusOr of
\* a std::unique_ptr, null unless the status is OK.
Failed(code) == Under(FALSE, code, <<>>, NullGeom)
DecodeFromBuffer(bytes, kind) ==
  IF Len(bytes) < HeaderSize THEN Failed("BufferUnderflow")
  ELSE IF SubSeq(bytes, 1, 5) # Magic THEN Failed("CorruptBitstream")
  ELSE IF bytes[6] > MajorVersion \/ (bytes[6] = MajorVersion /\ bytes[7] > MinorVersion)
  THEN Failed("UnsupportedVersion")
  ELSE IF bytes[8] # EncoderType(kind) \/ bytes[9] \notin {0, 1}
  THEN Failed("CorruptBitstream")
  ELSE IF bytes[10] # 0 \/ bytes[11] # 0 THEN Failed("UnsupportedFeature")
  ELSE
    LET np == DecodeVarint(bytes, HeaderSize)
        nf == IF kind = "mesh" THEN DecodeVarint(bytes, np.pos)
              ELSE [ok |-> TRUE, value |-> 0, pos |-> np.pos]
        fs == DecodeFaces(bytes, nf.pos, nf.value, DefaultFace, bytes[9], np.value)
    IN IF ~np.ok \/ ~nf.ok THEN Failed("BufferUnderflow")
       ELSE IF np.value = 0 THEN Failed("CorruptBitstream")
       ELSE IF 3 * nf.value > Len(bytes) - nf.pos THEN Failed("BufferUnderflow")
       ELSE IF fs.code # "OK" THEN Failed(fs.code)
       ELSE IF Len(bytes) - fs.pos < np.value THEN Failed("BufferUnderflow")
       ELSE Under(TRUE, "OK", <<>>, Geom(kind, np.value, fs.faces, TRUE))

\* Attributes added to and deleted from a Mesh, and their element types.
AttributesNext ==
  \/ attributes_ < MaxAtts /\ AddAttribute
  \/ \E att_id \in 0..(MaxAtts - 1) : DeleteAttribute(att_id)
  \/ \E att_id \in 0..(MaxAtts - 1), et \in MeshAttributeElementType :
       att_id < num_attributes /\ SetAttributeElementType(att_id, et)
  \/ \E att_id \in 0..(MaxAtts - 1), et \in MeshAttributeElementType :
       AddAttributeData(att_id, et)

(***************************************************************************)
(* ModernEncoder, ModernDecoder and the helpers of the round trip test.    *)
(***************************************************************************)
StatusOr(ok, code, value) == [ok |-> ok, code |-> code, value |-> value]
NoEncode ==
  [ok |-> FALSE, code |-> "none", value |-> <<>>, geom |-> NullGeom, level |-> 0,
   sizeofT |-> 1]
NoDecode == StatusOr(FALSE, "none", NullGeom)
ApiInit ==
  /\ api_op = [name |-> "none", wire |-> <<>>]
  /\ api_under = Under(FALSE, "none", <<>>, NullGeom)
  /\ api_enc = NoEncode
  /\ api_dec = NoDecode

\* std::vector<T>(data, data + buffer.size() / sizeof(T)) less its last element.
ToVector_OffByOne(buffer, sizeofT) ==
  SubSeq(buffer, 1, ((Len(buffer) \div sizeofT) - 1) * sizeofT)

\* std::vector<T>(data, data + buffer.size() / sizeof(T)): the bytes of the
\* whole elements of type T that the buffer holds.
ToVector(buffer, sizeofT) == SubSeq(buffer, 1, (Len(buffer) \div sizeofT) * sizeofT)

\* DRACO_RETURN_IF_ERROR(encoder.Encode...ToBuffer(...)); then the vector.
\* A StatusOr made from a Status holds a default constructed (empty) vector.
EncodeReturn(under, sizeofT) ==
  IF ~under.ok THEN StatusOr(FALSE, under.code, <<>>)
  ELSE StatusOr(TRUE, "OK", ToVector(under.buffer, sizeofT))

\* The decode wrappers without the test of status_or.ok().
DecodeReturn_Unchecked(under, kind) == StatusOr(TRUE, "OK", under.value)

\* if (!status_or.ok()) return status_or.status();
\* modern_mesh.mesh_ = std::move(status_or.value()); return modern_mesh;
\* A StatusOr made from a Status holds a default constructed ModernMesh /
\* ModernPointCloud, which owns an empty geometry.
DecodeReturn(under, kind) ==
  IF ~under.ok THEN StatusOr(FALSE, under.code, EmptyGeom(kind))
  ELSE StatusOr(TRUE, "OK", under.value)

ApiEncode(name, g, level, sizeofT, under, result) ==
  /\ api_op' = [name |-> name, wire |-> <<>>]
  /\ api_under' = under
  /\ api_enc' = [ok |-> result.ok, code |-> result.code, value |-> result.value,
                 geom |-> g, level |-> level, sizeofT |-> sizeofT]
  /\ api_dec' = NoDecode
  /\ UNCHANGED NotApi

\* ModernEncoder::EncodeMesh<T>(mesh, compression_level)
EncodeMesh(g, level, sizeofT) ==
  /\ g.kind = "mesh"
  /\ \E under \in EncodeToBuffer(g, level) :
       ApiEncode("EncodeMesh", g, level, sizeofT, under, EncodeReturn(under, sizeofT))

\* ModernEncoder::EncodePointCloud<T>(point_cloud, compression_level)
EncodePointCloud(g, level, sizeofT) ==
  /\ g.kind = "pc"
  /\ \E under \in EncodeToBuffer(g, level) :
       ApiEncode("EncodePointCloud", g, level, sizeofT, under,
                 EncodeReturn(under, sizeofT))

\* EncodeMeshToDraco(mesh) of the round trip test: a mesh without faces is
\* refused, speed 5; the result is a copy of all the bytes of the buffer.
EncodeMeshToDraco(g) ==
  /\ g.kind = "mesh"
  /\ IF Len(g.faces) = 0
     THEN ApiEncode("EncodeMeshToDraco", g, 5, 1,
                    Under(FALSE, "none", <<>>, NullGeom),
                    StatusOr(FALSE, "Cannot encode mesh with no faces", <<>>))
     ELSE \E under \in EncodeToBuffer(g, 5) :
            ApiEncode("EncodeMeshToDraco", g, 5, 1, under,
                      IF ~under.ok THEN StatusOr(FALSE, under.code, <<>>)
                      ELSE StatusOr(TRUE, "OK", under.buffer))

ApiDecode(name, data, under, result) ==
  /\ api_op' = [name |-> name, wire |-> data]
  /\ api_under' = under
  /\ api_dec' = result
  /\ UNCHANGED api_enc
  /\ UNCHANGED NotApi

\* ModernDecoder::DecodeMesh(data, size)
DecodeMesh(data) ==
  LET under == DecodeFromBuffer(data, "mesh")
  IN ApiDecode("DecodeMesh", data, under, DecodeReturn(under, "mesh"))

\* ModernDecoder::DecodePointCloud(data, size)
DecodePointCloud(data) ==
  LET under == DecodeFromBuffer(data, "pc")
  IN ApiDecode("DecodePointCloud", data, under, DecodeReturn(under, "pc"))

\* DecodeMeshFromDraco(data) of the round trip test.
DecodeMeshFromDraco(data) ==
  LET under == DecodeFromBuffer(data, "mesh")
  IN ApiDecode("DecodeMeshFromDraco", data, under,
               IF ~under.ok THEN StatusOr(FALSE, under.code, NullGeom)
               ELSE StatusOr(TRUE, "OK", under.value))

\* The bytes given to a decoder: the encoded ones, whole, cut short or with
\* the magic changed to "DRACX", or none.
DropLast(b, k) == SubSeq(b, 1, Len(b) - k)
WireSamples ==
  IF api_enc.ok /\ Len(api_enc.value) >= HeaderSize
  THEN {api_enc.value, DropLast(api_enc.value, 1), DropLast(api_enc.value, 2),
        [api_enc.value EXCEPT ![5] = 88], <<>>}
  ELSE {api_enc.value, <<>>}
TSamples == {1, 2, 4}

\* Every call builds its own buffer and Encoder / Decoder, so a call sees
\* nothing of the calls before it: a run is an encode and the decodes that
\* follow it.
ApiNext ==
  \/ \E g \in GeomSamples, level \in LevelSamples, sizeofT \in TSamples :
       api_op.name = "none" /\ EncodeMesh(g, level, sizeofT)
  \/ \E g \in GeomSamples, level \in LevelSamples, sizeofT \in TSamples :
       api_op.name = "none" /\ EncodePointCloud(g, level, sizeofT)
  \/ \E g \in GeomSamples : api_op.name = "none" /\ EncodeMeshToDraco(g)
  \/ \E data \in WireSamples :
       api_op.name # "none" /\ api_enc.geom.kind = "mesh" /\ DecodeMesh(data)
  \/ \E data \in WireSamples :
       api_op.name # "none" /\ api_enc.geom.kind = "pc" /\ DecodePointCloud(data)
  \/ \E data \in WireSamples :
       api_enc.geom.kind = "mesh" /\ api_enc.sizeofT = 1 /\ api_op.name # "none"
         /\ DecodeMeshFromDraco(data)

(***************************************************************************)
(* DracoCompressionOptions: public fields and Check().                     *)
(***************************************************************************)
MaxChanged == 2

QuantizationFields ==
  {"quantization_position", "quantization_bits_tex_coord", "quantization_bits_normal",
   "quantization_bits_color", "quantization_bits_generic", "quantization_bits_tangent",
   "quantization_bits_weight"}
OptionFields == {"compression_level"} \cup QuantizationFields
\* DracoCompressionOptions(): compression_level(7), quantization_position(11), ...
DefaultOptions ==
  [f \in OptionFields |->
     CASE f = "compression_level" -> 7
       [] f = "quantization_position" -> 11
       [] f = "quantization_bits_tex_coord" -> 10
       [] OTHER -> 8]
OptionSamples == {-1, 0, 1, 10, 11, 30, 31}

OptInit ==
  /\ options = DefaultOptions
  /\ opt_status = "none"

\* An assignment to a public field (for the position bits,
\* SpatialQuantizationOptions::SetQuantizationBits).
SetOption(field, value) ==
  /\ options' = [options EXCEPT ![field] = value]
  /\ Cardinality({f \in OptionFields : options'[f] # DefaultOptions[f]}) <= MaxChanged
  /\ opt_status' = "none"
  /\ UNCHANGED NotOpt

\* Status Check() const { return OkStatus(); }
Check ==
  /\ opt_status' = "OK"
  /\ UNCHANGED options
  /\ UNCHANGED NotOpt

OptNext ==
  \/ \E field \in OptionFields, value \in OptionSamples : SetOption(field, value)
  \/ Check

(***************************************************************************)
(* Corner table: corner 3f+k of face f, opposites through an edge map.     *)
(***************************************************************************)
\* Most faces of a triangle list.
MaxCtFaces == 3
\* Vertex ids of the triangle lists.
CtVertices == 0..4
kInvalidCorner == -1

next(c) == 3 * (c \div 3) + ((c + 1) % 3)
prev(c) == 3 * (c \div 3) + ((c + 2) % 3)
face(c) == c \div 3
\* vertex of corner 3f+k = face[f][k]
vertex(faces, c) == faces[face(c) + 1][(c % 3) + 1]

\* An edge key taken from the corner's own vertex and the next one.
EdgeKey_FromCorner(faces, c) ==
  LET a == vertex(faces, c)
      b == vertex(faces, next(c))
  IN IF a <= b THEN <<a, b>> ELSE <<b, a>>

\* (min(v_next, v_prev), max(v_next, v_prev)): the edge facing the corner.
EdgeKey(faces, c) ==
  LET a == vertex(faces, next(c))
      b == vertex(faces, prev(c))
  IN IF a <= b THEN <<a, b>> ELSE <<b, a>>

\* A manifoldness verification that accepts every edge.
IsNonManifold_Never(key, paired) == FALSE

\* Verification of manifoldness: the key of the corner was paired before, so
\* the corner is the third on its edge.
IsNonManifold(key, paired) == key \in paired

NoTable == [status |-> "NonManifold", opposite |-> <<>>]

\* The single pass over the corners from corner c on.  edge_map holds the
\* corner stored under each key, paired the keys removed from the map by a
\* pairing, opp the opposites set so far.
RECURSIVE InsertCorners(_, _, _, _, _)
InsertCorners(faces, c, edge_map, paired, opp) ==
  IF c >= 3 * Len(faces) THEN [status |-> "OK", opposite |-> opp]
  ELSE LET key == EdgeKey(faces, c)
           stored == {e \in edge_map : e.key = key}
       IN IF IsNonManifold(key, paired) THEN NoTable
          ELSE IF stored = {}
          THEN InsertCorners(faces, c + 1, edge_map \cup {[key |-> key, corner |-> c]},
                             paired, opp)
          ELSE LET o == (CHOOSE e \in stored : TRUE).corner
               IN InsertCorners(faces, c + 1, edge_map \ stored, paired \cup {key},
                                [opp EXCEPT ![c] = o, ![o] = c])

\* The table of a face list: every corner starts without an opposite.
BuildCornerTable(faces) ==
  InsertCorners(faces, 0, {}, {}, [c \in 0..(3 * Len(faces) - 1) |-> kInvalidCorner])

\* Triangles: every set of three of the vertices 0..3 in both orientations,
\* listed from its lowest vertex; the rotations of one triangle; a degenerate
\* triangle; a triangle with the fifth vertex in both orientations.
TriangleSamples ==
  {t \in (0..3) \X (0..3) \X (0..3) : t[1] < t[2] /\ t[1] < t[3] /\ t[2] # t[3]}
  \cup {<<1, 2, 0>>, <<2, 0, 1>>, <<0, 0, 1>>, <<0, 4, 1>>, <<0, 1, 4>>}
RECURSIVE TriangleLists(_)
TriangleLists(n) ==
  IF n = 0 THEN {<<>>}
  ELSE LET shorter == TriangleLists(n - 1)
       IN shorter \cup {Append(fs, t) : fs \in {l \in shorter : Len(l) = n - 1},
                                        t \in TriangleSamples}

CtInit ==
  /\ ct_faces = <<>>
  /\ ct_opposite = <<>>
  /\ ct_status = "none"

\* Construction of the corner table of a face list.
CornerTable_Init(faces) ==
  /\ LET t == BuildCornerTable(faces)
     IN /\ ct_faces' = faces
        /\ ct_opposite' = t.opposite
        /\ ct_status' = t.status
  /\ UNCHANGED NotCt

\* One table is built from each face list.
CtNext ==
  /\ ct_status = "none"
  /\ \E faces \in TriangleLists(MaxCtFaces) : CornerTable_Init(faces)

(***************************************************************************)
(* EdgeBreaker: traversal of the corner table from a seed, one symbol for  *)
(* the face inside the active gate.                                        *)
(***************************************************************************)
\* The neighbours of the face of corner c across its right and left edge.
RightCorner(opp, c) == opp[next(c)]
LeftCorner(opp, c) == opp[prev(c)]

\* The faces joined to the faces fs through opposite corners, fs included.
RECURSIVE JoinedFaces(_, _)
JoinedFaces(opp, fs) ==
  LET more == fs \cup {face(opp[c]) : c \in {d \in DOMAIN opp :
                                              face(d) \in fs /\ opp[d] # kInvalidCorner}}
  IN IF more = fs THEN fs ELSE JoinedFaces(opp, more)

\* The vertices on the boundary edges of the component of face f: they count
\* as visited from the start of its traversal.
BoundaryVertices(faces, opp, f) ==
  UNION {{vertex(faces, next(c)), vertex(faces, prev(c))} :
           c \in {d \in DOMAIN opp : /\ face(d) \in JoinedFaces(opp, {f})
                                      /\ opp[d] = kInvalidCorner}}

MinVertex(t) ==
  CHOOSE v \in {t[1], t[2], t[3]} : \A w \in {t[1], t[2], t[3]} : v <= w

\* The seed of the next component: among the faces not yet visited, the one
\* with the lowest minimum vertex id, the first of them in the list.
SeedFace(faces, visited_faces) ==
  LET left == {f \in 0..(Len(faces) - 1) : f \notin visited_faces}
      Before(f, g) ==
        \/ MinVertex(faces[f + 1]) < MinVertex(faces[g + 1])
        \/ MinVertex(faces[f + 1]) = MinVertex(faces[g + 1]) /\ f <= g
  IN CHOOSE f \in left : \A g \in left : Before(f, g)

\* The encoder before the first seed.
EbStart(faces, opp) ==
  [state |-> IF faces = <<>> THEN "Done" ELSE "Init",
   gate |-> kInvalidCorner, stack |-> <<>>,
   visited_vertices |-> {}, visited_faces |-> {},
   symbols |-> <<>>, visits |-> <<>>, components |-> <<>>]

\* The first gate of the component of the seed face f: the edge facing
\* corner k of f in a component without boundary; else a boundary edge, of f
\* when it has one (the edge facing corner k when that is one), else the
\* first boundary edge of the component.
FirstGate(opp, f, k) ==
  LET boundary == {c \in DOMAIN opp : /\ face(c) \in JoinedFaces(opp, {f})
                                      /\ opp[c] = kInvalidCorner}
      own == {c \in boundary : face(c) = f}
      First(cs) == CHOOSE c \in cs : \A d \in cs : c <= d
  IN IF boundary = {} \/ 3 * f + k \in boundary THEN 3 * f + k
     ELSE IF own # {} THEN First(own)
     ELSE First(boundary)

\* Init -> Traversing on seed: the two ends of the first gate are visited.
EbSeed(faces, opp, k, st) ==
  LET f == SeedFace(faces, st.visited_faces)
      c == FirstGate(opp, f, k)
  IN [st EXCEPT !.state = "Traversing", !.gate = c,
                !.visited_vertices = BoundaryVertices(faces, opp, f)
                                       \cup {vertex(faces, next(c)), vertex(faces, prev(c))}]

\* A neighbour that was visited before; past a boundary edge there is none
\* left to visit.
NeighbourVisited(o, visited_faces) == o = kInvalidCorner \/ face(o) \in visited_faces

\* A rule that emits E wherever the apex was visited.
Symbol_NoSplit(apex_visited, left_visited, right_visited) ==
  IF ~apex_visited THEN "C" ELSE "E"

\* The symbol of the face inside the gate.
SymbolOf(apex_visited, left_visited, right_visited) ==
  IF ~apex_visited THEN "C"
  ELSE IF left_visited /\ right_visited THEN "E"
  ELSE IF left_visited THEN "L"
  ELSE IF right_visited THEN "R"
  ELSE "S"

\* An end of a component that always is the end of the encoding.
EbClose_DoneAtOnce(faces, st) ==
  [st EXCEPT !.state = "Done",
             !.gate = kInvalidCorner,
             !.components = Append(@, [symbols |-> st.symbols, visits |-> st.visits]),
             !.symbols = <<>>, !.visits = <<>>]
\* The end of a component: the next seed, or Done when no face is left.
EbClose(faces, st) ==
  [st EXCEPT !.state = IF st.visited_faces = 0..(Len(faces) - 1) THEN "Done" ELSE "Init",
             !.gate = kInvalidCorner,
             !.components = Append(@, [symbols |-> st.symbols, visits |-> st.visits]),
             !.symbols = <<>>, !.visits = <<>>]

\* One step from the active gate.
EbVisit(faces, opp, st) ==
  LET c == st.gate
      l == LeftCorner(opp, c)
      r == RightCorner(opp, c)
      symbol == SymbolOf(vertex(faces, c) \in st.visited_vertices,
                         NeighbourVisited(l, st.visited_faces \cup {face(c)}),
                         NeighbourVisited(r, st.visited_faces \cup {face(c)}))
      seen == [st EXCEPT !.visited_faces = @ \cup {face(c)},
                         !.visits = Append(@, face(c)),
                         !.symbols = Append(@, symbol)]
  IN CASE symbol = "C" ->
            [seen EXCEPT !.visited_vertices = @ \cup {vertex(faces, c)}, !.gate = r]
       [] symbol = "L" -> [seen EXCEPT !.gate = r]
       [] symbol = "R" -> [seen EXCEPT !.gate = l]
       [] symbol = "S" ->
            [seen EXCEPT !.gate = r, !.stack = <<l>> \o @, !.state = "Stacked"]
       [] OTHER ->
            IF seen.stack = <<>> THEN EbClose(faces, seen)
            ELSE [seen EXCEPT !.gate = Head(seen.stack), !.stack = Tail(@),
                              !.state = IF Tail(seen.stack) = <<>> THEN "Traversing"
                                        ELSE "Stacked"]

EbStep(faces, opp, k, st) ==
  IF st.state = "Init" THEN EbSeed(faces, opp, k, st) ELSE EbVisit(faces, opp, st)

RECURSIVE EbRun(_, _, _, _)
EbRun(faces, opp, k, st) ==
  IF st.state = "Done" THEN st ELSE EbRun(faces, opp, k, EbStep(faces, opp, k, st))

EbInit ==
  /\ eb_status = "none"
  /\ eb_components = <<>>

\* Encoder steps 1 to 3: build the corner table and verify manifoldness, then
\* run EdgeBreaker over every component.  k is the corner of a seed face that
\* faces the first gate.
EncodeConnectivity(faces, k) ==
  /\ LET t == BuildCornerTable(faces)
     IN /\ ct_faces' = faces
        /\ ct_opposite' = t.opposite
        /\ ct_status' = t.status
        /\ eb_status' = t.status
        /\ eb_components' =
             IF t.status = "OK" THEN EbRun(faces, t.opposite, k, EbStart(faces, t.opposite)).components
             ELSE <<>>
  /\ UNCHANGED <<decv, encv, rtv, zzv, meshv, apiv, optv, ransv, qzv, rustv, copyv, ebmv>>

\* One connectivity encoding of each face list.
EbNext ==
  /\ eb_status = "none" /\ ct_status = "none"
  /\ \E faces \in TriangleLists(MaxCtFaces), k \in 0..2 : EncodeConnectivity(faces, k)

(***************************************************************************)
(* rANS symbol coder: precision L = 2^r, states from the renorm threshold  *)
(* 2^16 up, renormalized a byte at a time.                                 *)
(***************************************************************************)
\* Most symbols in a sequence.
MaxSymbols == 4
RansPrecisionBits == 8
RansPrecision == 2^RansPrecisionBits
RansThreshold == 2^16
RansIoBase == 256
RansAlphabet == 0..2

\* The cumulative frequency of symbol sym.
RECURSIVE CumFreq(_, _)
CumFreq(freq, sym) == IF sym = 0 THEN 0 ELSE CumFreq(freq, sym - 1) + freq[sym - 1]

\* Symbols taken by the encoder in the order of the sequence.
EncodingOrder_Forward(symbols) == symbols

\* The encoder takes the symbols in reverse order.
EncodingOrder(symbols) == [i \in 1..Len(symbols) |-> symbols[Len(symbols) + 1 - i]]

\* Renormalization of the encoder before a symbol of frequency m: bytes are
\* emitted while the state is too large to take the symbol.
RECURSIVE RansEmit(_, _, _)
RansEmit(x, m, bytes) ==
  IF x >= ((RansThreshold \div RansPrecision) * RansIoBase) * m
  THEN RansEmit(x \div RansIoBase, m, Append(bytes, x % RansIoBase))
  ELSE [x |-> x, bytes |-> bytes]

\* One symbol into the state.
RansPut(freq, sym, st) ==
  LET m == freq[sym]
      r == RansEmit(st.x, m, st.bytes)
  IN [x |-> (r.x \div m) * RansPrecision + (r.x % m) + CumFreq(freq, sym), bytes |-> r.bytes]

RECURSIVE RansPutAll(_, _, _)
RansPutAll(freq, symbols, st) ==
  IF symbols = <<>> THEN st
  ELSE RansPutAll(freq, Tail(symbols), RansPut(freq, Head(symbols), st))

\* The final state is flushed as four bytes after the bytes emitted.
RansFlush(st) ==
  st.bytes \o <<st.x % 256, (st.x \div 256) % 256, (st.x \div 65536) % 256,
                st.x \div 16777216>>

rans_encode(symbols, freq) ==
  RansFlush(RansPutAll(freq, EncodingOrder(symbols), [x |-> RansThreshold, bytes |-> <<>>]))

\* The symbol whose slots hold slot.
SymbolAt(freq, slot) ==
  CHOOSE sym \in RansAlphabet :
    CumFreq(freq, sym) <= slot /\ slot < CumFreq(freq, sym) + freq[sym]

\* Renormalization of the decoder: bytes are shifted in, last emitted first,
\* while the state is below the threshold.
RECURSIVE RansFill(_, _)
RansFill(x, bytes) ==
  IF x >= RansThreshold THEN [ok |-> TRUE, x |-> x, bytes |-> bytes]
  ELSE IF bytes = <<>> THEN [ok |-> FALSE, x |-> x, bytes |-> bytes]
  ELSE RansFill(x * RansIoBase + bytes[Len(bytes)], SubSeq(bytes, 1, Len(bytes) - 1))

\* count symbols out of the state, in forward order.
RECURSIVE RansGetAll(_, _, _, _)
RansGetAll(freq, count, x, bytes) ==
  IF count = 0 THEN [code |-> "OK", symbols |-> <<>>]
  ELSE LET slot == x % RansPrecision
           sym == SymbolAt(freq, slot)
           r == RansFill(freq[sym] * (x \div RansPrecision) + slot - CumFreq(freq, sym), bytes)
       IN IF ~r.ok THEN [code |-> "BufferUnderflow", symbols |-> <<>>]
          ELSE LET rest == RansGetAll(freq, count - 1, r.x, r.bytes)
               IN IF rest.code # "OK" THEN rest
                  ELSE [code |-> "OK", symbols |-> <<sym>> \o rest.symbols]

rans_decode(stream, freq, count) ==
  IF Len(stream) < 4 THEN [code |-> "BufferUnderflow", symbols |-> <<>>]
  ELSE LET n == Len(stream)
           x == stream[n - 3] + 256 * stream[n - 2] + 65536 * stream[n - 1]
                  + 16777216 * stream[n]
       IN RansGetAll(freq, count, x, SubSeq(stream, 1, n - 4))

\* Frequency tables that sum to the precision L.
FreqSamples ==
  {<<RansPrecision, 0, 0>>, <<RansPrecision - 1, 1, 0>>, <<1, 0, RansPrecision - 1>>,
   <<RansPrecision - 2, 1, 1>>, <<1, 1, RansPrecision - 2>>,
   <<RansPrecision \div 2, RansPrecision \div 4, RansPrecision \div 4>>}
FreqTable(t) == [sym \in RansAlphabet |-> t[sym + 1]]
SymbolSeqs == SeqsUpTo(RansAlphabet, MaxSymbols)

RansInit ==
  /\ rans_symbols = <<>>
  /\ rans_freq = FreqTable(<<RansPrecision, 0, 0>>)
  /\ rans_stream = <<>>
  /\ rans_out = [code |-> "none", symbols |-> <<>>]
  /\ rans_op = "none"

\* The encoder, on symbols that all have a frequency in the table.
RansEncodeSymbols(symbols, freq) ==
  /\ rans_op = "none"
  /\ \A i \in 1..Len(symbols) : freq[symbols[i]] > 0
  /\ rans_symbols' = symbols
  /\ rans_freq' = freq
  /\ rans_stream' = rans_encode(symbols, freq)
  /\ rans_op' = "encode"
  /\ UNCHANGED rans_out
  /\ UNCHANGED NotRans

\* The decoder, on the encoder's stream or on that stream without its first
\* cut bytes, with the encoder's table and symbol count.
RansDecodeSymbols(cut) ==
  /\ rans_op = "encode"
  /\ cut <= Len(rans_stream)
  /\ rans_out' = rans_decode(SubSeq(rans_stream, cut + 1, Len(rans_stream)), rans_freq,
                             Len(rans_symbols))
  /\ rans_stream' = SubSeq(rans_stream, cut + 1, Len(rans_stream))
  /\ rans_op' = "decode"
  /\ UNCHANGED <<rans_symbols, rans_freq>>
  /\ UNCHANGED NotRans

RansNext ==
  \/ /\ rans_op = "none"
     /\ \E symbols \in SymbolSeqs, t \in FreqSamples : RansEncodeSymbols(symbols, FreqTable(t))
  \/ \E cut \in 0..1 : RansDecodeSymbols(cut)

(***************************************************************************)
(* Quantization: q_c = round((v_c - min_c) / range * (2^q - 1)), clamped   *)
(* to [0, 2^q - 1].                                                        *)
(***************************************************************************)
\* Largest range of a component; its values lie on the integers.
MaxRange == 6
QuantizationBitsSamples == {1, 2, 8, 11, 14, 30}
MinSamples == {-3, 0, 1, 5}

\* round(d / range * max_quantized), halves up.  With max_quantized =
\* a * range + b the product is d * a + d * b / range, and no step leaves
\* 32 bits.  A range of 0 gives 0 / 0, which is not a number, and the
\* conversion of that to an integer is 0.
RoundedProduct(d, max_quantized, range) ==
  IF range = 0 THEN 0
  ELSE LET a == max_quantized \div range
           b == max_quantized % range
       IN d * a + (2 * d * b + range) \div (2 * range)

Clamp(x, lo, hi) == IF x < lo THEN lo ELSE IF x > hi THEN hi ELSE x

\* A quantizer that scales by 2^q and keeps the low q bits of the result.
Quantize_Masked(v, min, range, q) ==
  RoundedProduct(v - min, 2^q, range) % 2^q

Quantize(v, min, range, q) ==
  Clamp(RoundedProduct(v - min, 2^q - 1, range), 0, 2^q - 1)

QzInit ==
  /\ qz_bits = 0
  /\ qz_min = 0
  /\ qz_range = 0
  /\ qz_out = <<>>

\* The quantization of a component whose values fill [min, min + range].
QuantizeComponent(q, min, range) ==
  /\ qz_bits' = q
  /\ qz_min' = min
  /\ qz_range' = range
  /\ qz_out' = [v \in min..(min + range) |-> Quantize(v, min, range, q)]
  /\ UNCHANGED NotQz

QzNext ==
  \E q \in QuantizationBitsSamples, min \in MinSamples, range \in 0..MaxRange :
    QuantizeComponent(q, min, range)

(***************************************************************************)
(* DecoderBuffer built with DRACO_RUST_CORE.  The functions behind the     *)
(* handle are those of the position-advancing decoder buffer: reading past *)
(* the end fails, position and remaining size are observable.              *)
(***************************************************************************)
\* A member no constructor of this build initialises.
Indeterminate == <<"indeterminate">>

draco_decoder_buffer_create == [data |-> <<>>, position |-> 0]
draco_decoder_buffer_init(b, data) == [data |-> data, position |-> 0]
draco_decoder_buffer_position(b) == b.position
draco_decoder_buffer_remaining_size(b) == Len(b.data) - b.position
\* Reading size bytes past the end fails with BufferUnderflow.
BufferUnderflow(b, size) ==
  ~IsSmall(size) \/ SmallVal(size) > draco_decoder_buffer_remaining_size(b)
draco_decoder_buffer_peek(b, size) ==
  IF BufferUnderflow(b, size)
  THEN [ok |-> FALSE, out |-> Untouched, buffer |-> b]
  ELSE [ok |-> TRUE,
        out |-> SubSeq(b.data, b.position + 1, b.position + SmallVal(size)),
        buffer |-> b]
draco_decoder_buffer_decode(b, size) ==
  IF BufferUnderflow(b, size)
  THEN [ok |-> FALSE, out |-> Untouched, buffer |-> b]
  ELSE [ok |-> TRUE,
        out |-> SubSeq(b.data, b.position + 1, b.position + SmallVal(size)),
        buffer |-> [b EXCEPT !.position = @ + SmallVal(size)]]

RustCoreInit ==
  /\ rust_buffer_ = draco_decoder_buffer_create
  /\ rust_pos_ = Indeterminate
  /\ rust_ret = TRUE
  /\ rust_out = Untouched
  /\ rust_calls = 0

\* The calls followed, Init included.
MaxCalls == 3
RustCall == rust_calls < MaxCalls /\ rust_calls' = rust_calls + 1

\* The result of a call that goes to the Rust buffer.
RustResult(r) ==
  /\ RustCall
  /\ rust_buffer_' = r.buffer
  /\ rust_ret' = r.ok
  /\ rust_out' = r.out
  /\ UNCHANGED rust_pos_

\* void Init(const char *data, size_t data_size)
Rust_Init(d) ==
  /\ rust_buffer_' = draco_decoder_buffer_init(rust_buffer_, d)
  /\ rust_ret' = TRUE
  /\ RustCall
  /\ UNCHANGED <<rust_pos_, rust_out>>
\* bool Decode(void *out_data, size_t size_to_decode)
Rust_Decode(size) == RustResult(draco_decoder_buffer_decode(rust_buffer_, size))
\* template <typename T> bool Decode(T *out_val): Decode(out_val, sizeof(T))
Rust_DecodeT(n) == Rust_Decode(W64(n))
\* bool Peek(void *out_data, size_t size_to_peek)
Rust_Peek(size) == RustResult(draco_decoder_buffer_peek(rust_buffer_, size))
\* template <typename T> bool Peek(T *out_val): Peek(out_val, sizeof(T))
Rust_PeekT(n) == Rust_Peek(W64(n))
\* pos_ += bytes on a member that was never written stays indeterminate.
PosPlus(bytes) ==
  IF rust_pos_ = Indeterminate THEN Indeterminate ELSE WordAdd(rust_pos_, bytes)
\* void Advance(int64_t bytes) { if (bytes >= 0) { pos_ += bytes; } }
Rust_Advance(bytes) ==
  /\ RustCall
  /\ rust_pos_' = IF ~IsNeg(bytes) THEN PosPlus(bytes) ELSE rust_pos_
  /\ rust_ret' = TRUE
  /\ rust_out' = Untouched
  /\ UNCHANGED rust_buffer_
\* void StartDecodingFrom(int64_t offset) { pos_ = offset; }
Rust_StartDecodingFrom(offset) ==
  /\ RustCall
  /\ rust_pos_' = offset
  /\ rust_ret' = TRUE
  /\ rust_out' = Untouched
  /\ UNCHANGED rust_buffer_
\* int64_t decoded_size() const
Rust_decoded_size == W64(draco_decoder_buffer_position(rust_buffer_))
\* int64_t remaining_size() const
Rust_remaining_size == W64(draco_decoder_buffer_remaining_size(rust_buffer_))

\* Advance is called with bytes >= 0.
AdvanceSamples == {b \in OffsetSamples : ~IsNeg(b)}
\* The data and the sizes of the calls made on both builds.
BothDataSamples == {d \in DataSamples : Len(d) \in {0, 1, MaxData}}
BothSizeSamples == {W64(0), W64(1), W64(MaxData), <<0, 0, 0, LimbSign>>, SIZE_MAX}

\* The same calls made on a DecoderBuffer of the C++ build and on one of the
\* DRACO_RUST_CORE build.
RustCoreNext ==
  \/ \E d \in BothDataSamples : DecoderBuffer_Init(d) /\ Rust_Init(d) /\ UNCHANGED rtv
  \/ \E size \in BothSizeSamples : Peek(size) /\ Rust_Peek(size) /\ UNCHANGED rtv
  \/ \E n \in SizeofT : PeekT(n) /\ Rust_PeekT(n) /\ UNCHANGED rtv
  \/ \E size \in BothSizeSamples : Decode(size) /\ Rust_Decode(size) /\ UNCHANGED rtv
  \/ \E n \in SizeofT : DecodeT(n) /\ Rust_DecodeT(n) /\ UNCHANGED rtv
  \/ \E bytes \in AdvanceSamples : Advance(bytes) /\ Rust_Advance(bytes) /\ UNCHANGED rtv
  \/ \E offset \in OffsetSamples :
       StartDecodingFrom(offset) /\ Rust_StartDecodingFrom(offset) /\ UNCHANGED rtv

(***************************************************************************)
(* Copies of a DecoderBuffer.                                              *)
(***************************************************************************)
NoCopy == <<"none">>
CopyInit == dec_copy = NoCopy /\ rust_copy = NoCopy /\ copy_at = -1

\* The members of the C++ build.
DecMembers ==
  [data_ |-> data_, data_size_ |-> data_size_, pos_ |-> pos_,
   bit_mode_ |-> bit_mode_, bit_buffer_ |-> bit_buffer_,
   bit_buffer_end_ |-> bit_buffer_end_, bit_offset_ |-> bit_offset_]

\* DecoderBuffer(const DecoderBuffer &buf) = default;
\* DecoderBuffer &operator=(const DecoderBuffer &buf) = default;
DefaultCopy(members) == members

\* DecoderBuffer(const DecoderBuffer &other)
\*     : rust_buffer_(draco_decoder_buffer_create()) {}
Rust_CopyConstruct ==
  [rust_buffer_ |-> draco_decoder_buffer_create, pos_ |-> Indeterminate]
\* operator=: the buffer behind the target is destroyed and a new one is
\* created; the other members of the target stay.
Rust_CopyAssign(target) ==
  [target EXCEPT !.rust_buffer_ = draco_decoder_buffer_create]

\* DecoderBuffer copy(source), in both builds.
CopyConstruct ==
  /\ dec_copy' = DefaultCopy(DecMembers)
  /\ rust_copy' = Rust_CopyConstruct
  /\ copy_at' = rust_calls
  /\ UNCHANGED NotCopy
\* copy = source, in both builds, for a copy made earlier.
CopyAssign ==
  /\ copy_at >= 0
  /\ dec_copy' = DefaultCopy(DecMembers)
  /\ rust_copy' = Rust_CopyAssign(rust_copy)
  /\ copy_at' = rust_calls
  /\ UNCHANGED NotCopy

\* Calls on a DecoderBuffer and copies of it, in both builds.
CopyNext ==
  \/ \E d \in BothDataSamples : DecoderBuffer_Init(d) /\ Rust_Init(d) /\ UNCHANGED rtv
  \/ \E n \in SizeofT : DecodeT(n) /\ Rust_DecodeT(n) /\ UNCHANGED rtv
  \/ \E bytes \in AdvanceSamples : Advance(bytes) /\ Rust_Advance(bytes) /\ UNCHANGED rtv
  \/ CopyConstruct
  \/ CopyAssign

(***************************************************************************)
(* The EdgeBreaker encoder as a state machine over the states Init,        *)
(* Traversing, Stacked and Done, one transition at a time.                 *)
(***************************************************************************)
\* No encoding was started.
EbIdle == [EbStart(<<>>, <<>>) EXCEPT !.state = "Idle"]
EbMachineInit == eb_machine = EbIdle /\ eb_k = 0 /\ eb_steps = 0

\* The start of a connectivity encoding: the corner table is built and
\* verified, and the machine is put before its first seed.
EbBegin(faces, k) ==
  /\ eb_machine = EbIdle /\ ct_status = "none"
  /\ LET t == BuildCornerTable(faces)
     IN /\ ct_faces' = faces
        /\ ct_opposite' = t.opposite
        /\ ct_status' = t.status
        /\ eb_machine' = IF t.status = "OK" THEN EbStart(faces, t.opposite)
                         ELSE [EbIdle EXCEPT !.state = "NonManifold"]
  /\ eb_k' = k
  /\ eb_steps' = 0
  /\ UNCHANGED <<decv, encv, rtv, zzv, meshv, apiv, optv, ebv, ransv, qzv, rustv, copyv>>

\* The machine is between entry and return.
EbRunning == eb_machine.state \in {"Init", "Traversing", "Stacked"}

\* One transition of the machine: a seed, or the face inside the gate.
EbTransition ==
  /\ EbRunning
  /\ eb_machine' = EbStep(ct_faces, ct_opposite, eb_k, eb_machine)
  /\ eb_steps' = eb_steps + 1
  /\ UNCHANGED <<decv, encv, rtv, zzv, meshv, apiv, optv, ctv, ebv, ransv, qzv, rustv, copyv, eb_k>>

EbMachineNext ==
  \/ /\ eb_machine = EbIdle
     /\ \E faces \in TriangleLists(MaxCtFaces), k \in 0..2 : EbBegin(faces, k)
  \/ EbTransition

(***************************************************************************)
(* A bit sequence written by an EncoderBuffer and read by a DecoderBuffer   *)
(* initialised from its bytes: dec.Init(enc.data(), enc.size()).           *)
(***************************************************************************)
RtRequiredBits == {16, 64}
RtNBitsSamples == {0, 1, 7, 9, 16, 17, 32}
\* The bits of the open sequence fit the bytes StartBitEncoding reserved.
Fits(nbits) == enc_bit_offset_ + nbits <= 8 * bit_encoder_reserved_bytes_

RtNext ==
  \/ /\ enc_op.name = "EncoderBuffer"
     /\ EncodeT(<<165>>) /\ UNCHANGED rtv
  \/ \E required_bits \in RtRequiredBits :
       /\ enc_op.name \in {"EncoderBuffer", "EncodeT"}
       /\ StartBitEncoding(required_bits, FALSE) /\ UNCHANGED rtv
  \/ \E nbits \in RtNBitsSamples, value \in U32Samples :
       /\ Len(rt_written) < MaxWrites /\ bit_encoder_active /\ Fits(nbits)
       /\ EncodeLeastSignificantBits32(nbits, value)
       /\ rt_written' = Append(rt_written, [value |-> value, nbits |-> nbits])
       /\ UNCHANGED rt_read
  \/ /\ bit_encoder_active
     /\ EndBitEncoding /\ UNCHANGED rtv
  \/ /\ enc_op.name = "EndBitEncoding"
     /\ DecoderBuffer_Init(buffer_) /\ UNCHANGED <<rtv, rustv>>
  \/ /\ ~bit_mode_ /\ rt_read = <<>> /\ SmallVal(pos_) < enc_bit_buffer_
     /\ DecodeT(1) /\ UNCHANGED <<rtv, rustv>>
  \/ /\ ~bit_mode_ /\ rt_read = <<>> /\ SmallVal(pos_) = enc_bit_buffer_
     /\ StartBitDecoding /\ UNCHANGED <<rtv, rustv>>
  \/ /\ bit_mode_ /\ Len(rt_read) < Len(rt_written)
     /\ DecodeLeastSignificantBits32(rt_written[Len(rt_read) + 1].nbits)
     /\ rt_read' = Append(rt_read, dec_out')
     /\ UNCHANGED <<rt_written, rustv>>

\* Byte-level use of a DecoderBuffer.
DecNext ==
  \/ \E d \in DataSamples : DecoderBuffer_Init(d) /\ UNCHANGED <<rtv, rustv>>
  \/ \E size \in SizeSamples : Peek(size) /\ UNCHANGED <<rtv, rustv>>
  \/ \E n \in SizeofT : PeekT(n) /\ UNCHANGED <<rtv, rustv>>
  \/ \E size \in SizeSamples : Decode(size) /\ UNCHANGED <<rtv, rustv>>
  \/ \E n \in SizeofT : DecodeT(n) /\ UNCHANGED <<rtv, rustv>>
  \/ \E bytes \in OffsetSamples : Advance(bytes) /\ UNCHANGED <<rtv, rustv>>
  \/ \E offset \in OffsetSamples : StartDecodingFrom(offset) /\ UNCHANGED <<rtv, rustv>>

\* Bit-level use of a DecoderBuffer, between typed reads.
DecBitsNext ==
  \/ \E d \in DataSamples : DecoderBuffer_Init(d) /\ UNCHANGED <<rtv, rustv>>
  \/ \E n \in SizeofT : DecodeT(n) /\ UNCHANGED <<rtv, rustv>>
  \/ StartBitDecoding /\ UNCHANGED <<rtv, rustv>>
  \/ \E nbits \in NBitsSamples : DecodeLeastSignificantBits32(nbits) /\ UNCHANGED <<rtv, rustv>>
  \/ EndBitDecoding /\ UNCHANGED <<rtv, rustv>>

\* Byte-level and bit-level use of an EncoderBuffer.  rt_written follows the
\* bit sequence that is open.
EncNext ==
  \/ \E d \in PlainSamples :
       Len(buffer_) + Len(d) <= MaxPlain /\ Encode(d) /\ UNCHANGED rtv
  \/ \E d \in TypedSamples :
       Len(buffer_) <= MaxPlain /\ EncodeT(d) /\ UNCHANGED rtv
  \/ \E required_bits \in RequiredBitsSamples, encode_size \in BOOLEAN :
       /\ Len(buffer_) <= MaxPlain
       /\ StartBitEncoding(required_bits, encode_size)
       /\ rt_written' = IF enc_ret' THEN <<>> ELSE rt_written
       /\ UNCHANGED rt_read
  \/ \E nbits \in EncNBitsSamples, value \in EncValueSamples :
       /\ Len(rt_written) < MaxWrites
       /\ EncodeLeastSignificantBits32(nbits, value)
       /\ rt_written' = IF enc_ret' /\ ~enc_crashed'
                        THEN Append(rt_written, [value |-> value, nbits |-> nbits])
                        ELSE rt_written
       /\ UNCHANGED rt_read
  \/ EndBitEncoding /\ UNCHANGED rtv

\* Bit-level calls on an EncoderBuffer and then on a DecoderBuffer: the
\* decoder is taken up when the encoder holds one byte, has no bit sequence
\* behind it and has refused a bit write.
Lsb32Next ==
  \/ dec_op.name = "DecoderBuffer" /\ EncNext
  \/ \E d \in DataSamples :
       /\ enc_op.name = "EncodeLeastSignificantBits32" /\ ~enc_op.active /\ ~enc_ret
       /\ Len(buffer_) = 1 /\ enc_bit_buffer_ = 0
       /\ DecoderBuffer_Init(d) /\ UNCHANGED <<rtv, rustv>>
  \/ StartBitDecoding /\ UNCHANGED <<rtv, rustv>>
  \/ \E nbits \in EncNBitsSamples : DecodeLeastSignificantBits32(nbits) /\ UNCHANGED <<rtv, rustv>>
  \/ EndBitDecoding /\ UNCHANGED <<rtv, rustv>>

RtIdle == rt_written = <<>> /\ rt_read = <<>>

Init == DecInit /\ EncInit /\ RtIdle /\ ZzIdle /\ MeshInit /\ ApiInit /\ OptInit /\ CtInit /\ EbInit /\ RansInit /\ QzInit /\ RustCoreInit /\ CopyInit /\ EbMachineInit
Next == DecNext
Spec == Init /\ [][Next]_vars
SpecDecBits == Init /\ [][DecBitsNext]_vars
SpecEnc == Init /\ [][EncNext]_vars
SpecBits == Init /\ [][RtNext]_vars
ZigInit == DecInit /\ EncInit /\ RtIdle /\ ZzInit /\ MeshInit /\ ApiInit /\ OptInit /\ CtInit /\ EbInit /\ RansInit /\ QzInit /\ RustCoreInit /\ CopyInit /\ EbMachineInit
SpecZigZag == ZigInit /\ [][ZzNext]_vars
SpecMesh == Init /\ [][MeshNext]_vars
SpecApi == Init /\ [][ApiNext]_vars
SpecOptions == Init /\ [][OptNext]_vars
SpecCornerTable == Init /\ [][CtNext]_vars
SpecEdgeBreaker == Init /\ [][EbNext]_vars
SpecRans == Init /\ [][RansNext]_vars
SpecQuantization == Init /\ [][QzNext]_vars
SpecRustCore == Init /\ [][RustCoreNext]_vars
SpecCopy == Init /\ [][CopyNext]_vars
SpecFaces == Init /\ [][FacesNext]_vars
SpecAttributes == Init /\ [][AttributesNext]_vars
\* An encode call runs from entry to return: the machine is not left between
\* two transitions.  The steps that count a transition are those of
\* EbTransition, which can be taken whenever the machine is running.
EbTransitionTaken == EbRunning /\ eb_steps' = eb_steps + 1
SpecEbMachine == Init /\ [][EbMachineNext]_vars /\ WF_eb_steps(EbTransitionTaken)
SpecLsb32 == Init /\ [][Lsb32Next]_vars

(***************************************************************************)
(* Claims.                                                                 *)
(***************************************************************************)
\* The last call was a byte-level Decode (raw or typed) started at a position
\* p with 0 <= p <= data_size_.
DecodeFromInside ==
  /\ dec_op.name \in {"Decode", "DecodeT"}
  /\ ~IsNeg(dec_op.pos) /\ SLessEq(dec_op.pos, data_size_)
\* Fewer than dec_op.size bytes remained when the last call started.
TooFewRemained == ULess(WordSub(data_size_, dec_op.pos), dec_op.size)

\* C2: a Decode of n bytes from a position inside the data returns false,
\* copies nothing and leaves the position where it was when fewer than n bytes
\* remain, and otherwise returns true and moves the position forward by n.
C2_DecodePastEndFails ==
  DecodeFromInside =>
    IF TooFewRemained
    THEN ~dec_crashed /\ dec_ret = FALSE /\ dec_out = Untouched /\ pos_ = dec_op.pos
    ELSE ~dec_crashed /\ dec_ret = TRUE /\ pos_ = WordAdd(dec_op.pos, dec_op.size)

\* The unread bits of the bit sequence when the last call started.
BitsLeftAtCall == ((bit_buffer_end_ - bit_buffer_) * 8) - dec_op.bits

\* C3: while bit decoding is active, DecodeLeastSignificantBits32(nbits, out)
\* returns false whenever fewer than nbits unread bits remain.
C3_BitsPastEndFail ==
  (/\ dec_op.name = "DecodeLeastSignificantBits32"
   /\ bit_mode_
   /\ BitsLeftAtCall < SmallVal(dec_op.size))
  => dec_ret = FALSE

ByteWrites == {"Encode", "EncodeT"}
\* C4: from a StartBitEncoding that succeeded until EndBitEncoding the bit
\* mode stays on, and every byte-level Encode call (typed or raw) made while
\* it is on returns false and leaves the buffer's bytes, and so its size(),
\* as they were; a byte-level write made while it is off succeeds.
C4_NoByteWritesInBitMode ==
  [][/\ (enc_op'.name = "StartBitEncoding" /\ enc_ret') => bit_encoder_active'
     /\ (bit_encoder_active /\ ~bit_encoder_active') => enc_op'.name = "EndBitEncoding"
     /\ (enc_op'.name \in ByteWrites /\ enc_op' # enc_op) =>
          IF bit_encoder_active
          THEN enc_ret' = FALSE /\ buffer_' = buffer_
          ELSE enc_ret' = TRUE /\ Len(buffer_') >= Len(buffer_)]_vars
\* A byte-level write was tried after bits were put in an open sequence, and
\* was refused.
C4_Witness ==
  /\ enc_op.name \in ByteWrites /\ enc_op.active /\ bit_encoder_active
  /\ Len(rt_written) > 0 /\ enc_ret = FALSE

\* value mod 2^nbits of a uint32_t, 0 <= nbits <= 32.
LowBits(value, nbits) ==
  IF nbits >= 16 THEN <<value[1], value[2] % 2^(nbits - 16)>>
  ELSE <<value[1] % 2^nbits, 0>>
\* Bit k (from 0) of the bit stream made of the writes ws in order.
RECURSIVE StreamBit(_, _)
StreamBit(ws, k) ==
  IF k < Head(ws).nbits
  THEN LET v == Head(ws).value
       IN IF k < 16 THEN (v[1] \div 2^k) % 2 ELSE (v[2] \div 2^(k - 16)) % 2
  ELSE StreamBit(Tail(ws), k - Head(ws).nbits)
RECURSIVE StreamLen(_)
StreamLen(ws) == IF ws = <<>> THEN 0 ELSE Head(ws).nbits + StreamLen(Tail(ws))
\* C5: the bits written by EncodeLeastSignificantBits32 (BitEncoder::PutBits)
\* into reserved bytes that hold them lie LSB-first, stream bit k in bit
\* (k mod 8) of byte (k div 8) of the bit sequence, and reading the bytes back
\* with the same bit counts (BitDecoder::GetBits) succeeds and returns
\* value_i mod 2^nbits_i in the order written.
C5_BitsRoundTrip ==
  ~enc_oob =>
    /\ \A k \in 0..(StreamLen(rt_written) - 1) :
         StreamBit(rt_written, k) =
           (buffer_[enc_bit_buffer_ + (k \div 8) + 1] \div 2^(k % 8)) % 2
    /\ \A i \in 1..Len(rt_read) :
         rt_read[i] = LowBits(rt_written[i].value, rt_written[i].nbits)
    /\ (rt_read # <<>>) => dec_ret
\* Two values were written and read back, the second from a bit offset that
\* is not a byte boundary, and the bits did not all have the same value.
C5_Witness ==
  /\ Len(rt_read) = 2 /\ Len(rt_written) = 2
  /\ rt_written[1].nbits % 8 # 0 /\ rt_written[2].nbits > 8
  /\ rt_read[2] \notin {W32(0), <<LimbMax, LimbMax>>}
  /\ ~enc_oob

\* C6: ConvertSymbolToSignedInt(ConvertSignedIntToSymbol(v)) = v for the
\* int32 v, INT32_MIN and INT32_MAX included.
C6_ZigZagRoundTrip == (zz_back # NotComputed) => zz_back = zz_in
INT32_MIN == <<0, LimbSign>>
INT32_MAX == <<LimbMax, LimbSign - 1>>
C6_Witness == zz_back # NotComputed /\ zz_in = INT32_MIN

\* The 32 bit word as a 64 bit one: the int32_t, and the uint32_t, it holds.
SignExt(a) == IF IsNeg(a) THEN a \o <<LimbMax, LimbMax>> ELSE a \o <<0, 0>>
ZeroExt(a) == a \o <<0, 0>>
Shr1Wide(x) ==
  [i \in 1..4 |-> (x[i] \div 2) + (IF i < 4 THEN (x[i+1] % 2) * LimbSign ELSE 0)]
\* C7: over the integers (64 bit words hold every value involved),
\* ConvertSignedIntToSymbol(v) is -2v - 1 for v < 0 and 2v otherwise, and
\* ConvertSymbolToSignedInt(u) is -((u+1)>>1) for odd u and u>>1 otherwise.
C7_ZigZagFormulas ==
  /\ (zz_sym # NotComputed) =>
       LET v == SignExt(zz_in)
           twice == WordAdd(v, v)
       IN ZeroExt(zz_sym) = IF IsNeg(zz_in) THEN WordSub(WordNeg(twice), W64(1)) ELSE twice
  /\ (zz_dec # NotComputed) =>
       LET u == ZeroExt(zz_in)
       IN SignExt(zz_dec) = IF zz_in[1] % 2 = 1
                            THEN WordNeg(Shr1Wide(WordAdd(u, W64(1))))
                            ELSE Shr1Wide(u)
C7_Witness ==
  /\ zz_sym # NotComputed /\ zz_dec # NotComputed
  /\ zz_in = <<LimbMax, LimbMax>>

\* C9: every point index stored in a face is less than the point count.
C9_FaceIndicesBelowN ==
  /\ \A f \in DOMAIN faces_.at : \A c \in 1..3 : faces_.at[f][c] < num_points_
  /\ faces_.size # W64(Cardinality(DOMAIN faces_.at)) => 0 < num_points_

\* C10: after DeleteAttribute(a), every other attribute id b that had
\* attribute data before the call still has it, and GetAttributeElementType(b)
\* is what it was before the call.
C10_IdsStableUnderDeletion ==
  (mesh_op.name = "DeleteAttribute") =>
    \A b \in 0..(Len(mesh_op.data) - 1) :
      (b # mesh_op.arg) =>
        /\ InAttributeData(b)
        /\ GetAttributeElementType(b) = mesh_op.data[b + 1]

Decoders == {"DecodeMesh", "DecodePointCloud", "DecodeMeshFromDraco"}
\* The last call decoded the bytes that the encode before it produced as a
\* byte vector (T = uint8_t).
DecodedTheEncoding ==
  /\ api_op.name \in Decoders /\ api_enc.ok /\ api_enc.sizeofT = 1
  /\ api_op.wire = api_enc.value
C8_ResultOrError ==
  /\ (api_op.name \in {"DecodeMesh", "DecodePointCloud"}) =>
       IF api_under.ok
       THEN api_dec.ok /\ api_dec.value = api_under.value
       ELSE /\ ~api_dec.ok /\ api_dec.code = api_under.code
            /\ api_dec.value.num_points = 0 /\ api_dec.value.faces = <<>>
            /\ api_dec.value.kind # "null"
  /\ (api_op.name \in {"EncodeMesh", "EncodePointCloud"}) =>
       IF api_under.ok
       THEN api_enc.ok /\ api_enc.value = ToVector(api_under.buffer, api_enc.sizeofT)
       ELSE ~api_enc.ok /\ api_enc.code = api_under.code /\ api_enc.value = <<>>
\* The Decoder failed on a stream cut short.
C8_Witness ==
  /\ api_op.name = "DecodeMesh" /\ ~api_under.ok /\ api_enc.ok
  /\ api_under.code = "BufferUnderflow" /\ Len(api_op.wire) >= HeaderSize

OptionsInRange ==
  /\ options["compression_level"] \in 0..10
  /\ \A f \in QuantizationFields : options[f] \in 1..30
\* C11: Check() on options whose compression_level is outside 0..10, or with
\* a quantization bits field outside 1..30, returns a status that is not OK.
C11_OutOfRangeRejected ==
  (opt_status # "none" /\ ~OptionsInRange) => opt_status # "OK"

\* The two ends of the edge facing corner c.
FacingEdge(c) == {vertex(ct_faces, next(c)), vertex(ct_faces, prev(c))}
CtCorners == 0..(3 * Len(ct_faces) - 1)
\* The corners that face the edge between vertices a and b.
CornersOnEdge(a, b) == {c \in CtCorners : FacingEdge(c) = {a, b}}
\* No edge is shared by more than two corners.
CtManifold ==
  \A a \in CtVertices, b \in CtVertices : Cardinality(CornersOnEdge(a, b)) <= 2
\* C12: the table built from a manifold triangle list pairs corners
\* symmetrically, and two paired corners face the same two vertices.
C12_OppositeSymmetric ==
  (ct_status # "none" /\ CtManifold) =>
    /\ ct_status = "OK"
    /\ \A c \in CtCorners :
         ct_opposite[c] # kInvalidCorner =>
           /\ ct_opposite[c] \in CtCorners
           /\ ct_opposite[ct_opposite[c]] = c
           /\ FacingEdge(ct_opposite[c]) = FacingEdge(c)
C12_Witness ==
  /\ ct_status = "OK" /\ CtManifold /\ Len(ct_faces) = 3
  /\ \E c \in CtCorners : ct_opposite[c] # kInvalidCorner /\ face(ct_opposite[c]) = 2
  /\ \E c \in CtCorners : ct_opposite[c] = kInvalidCorner
  /\ \A i \in 1..3 : Cardinality({ct_faces[i][1], ct_faces[i][2], ct_faces[i][3]}) = 3

Adjacent(f, g) ==
  \E c \in CtCorners, d \in CtCorners :
    face(c) = f /\ face(d) = g /\ f # g /\ FacingEdge(c) = FacingEdge(d)
RECURSIVE Reach(_, _)
Reach(fs, n) ==
  IF n = 0 THEN fs
  ELSE Reach(fs \cup {g \in 0..(Len(ct_faces) - 1) : \E f \in fs : Adjacent(f, g)}, n - 1)
\* The connected component of face f.
ComponentOf(f) == Reach({f}, Len(ct_faces))
EbSymbols == {"C", "L", "R", "S", "E"}
\* Every face has three different vertices.
NoDegenerateFace ==
  \A i \in 1..Len(ct_faces) :
    Cardinality({ct_faces[i][1], ct_faces[i][2], ct_faces[i][3]}) = 3
C15_RansRoundTrip ==
  (rans_op = "decode" /\ rans_stream = rans_encode(rans_symbols, rans_freq)) =>
    rans_out = [code |-> "OK", symbols |-> rans_symbols]
C15_Witness ==
  /\ rans_op = "decode" /\ rans_stream = rans_encode(rans_symbols, rans_freq)
  /\ Len(rans_symbols) = MaxSymbols
  /\ rans_symbols[1] # rans_symbols[2]
  /\ Len(rans_stream) > 5

ByteReads == {"Decode", "DecodeT", "Peek", "PeekT"}
\* C17: whatever Init, Decode, Peek, Advance and StartDecodingFrom calls came
\* before, a Decode or Peek that returns true has read only bytes of the data.
C17_ReadsStayInData ==
  (dec_op.name \in ByteReads /\ dec_ret) => ~dec_oob

\* dec_op.size bytes remained when the last call started from inside the data.
RemainedAtCall ==
  /\ ~IsNeg(dec_op.pos) /\ SLessEq(dec_op.pos, data_size_)
  /\ ~ULess(WordSub(data_size_, dec_op.pos), dec_op.size)
\* C18: from a position p in [0, data_size], Decode(out, size) and
\* Peek(out, size) succeed exactly when p + size <= data_size over the
\* integers, for every 64 bit size.
C18_BoundsCheckExact ==
  (/\ dec_op.name \in {"Decode", "Peek"}
   /\ ~IsNeg(dec_op.pos) /\ SLessEq(dec_op.pos, data_size_)
   /\ ~dec_crashed)
  => (dec_ret <=> RemainedAtCall)

\* C19: while a bit sequence is being decoded, Decode returns false and the
\* read position stays where it was.
C19_NoDecodeInBitMode ==
  (dec_op.name \in {"Decode", "DecodeT"} /\ bit_mode_) =>
    (dec_ret = FALSE /\ pos_ = dec_op.pos)

\* C20: EncodeLeastSignificantBits32 called while bit encoding is not active
\* returns false and leaves the buffer as it was; DecodeLeastSignificantBits32
\* called while bit decoding is not active returns false, leaves the read
\* position as it was and writes nothing to the out value.
C20_InactiveBitCallsRefused ==
  [][/\ (/\ enc_op'.name = "EncodeLeastSignificantBits32" /\ enc_op' # enc_op
         /\ ~bit_encoder_active)
        => (enc_ret' = FALSE /\ buffer_' = buffer_)
     /\ (/\ dec_op'.name = "DecodeLeastSignificantBits32" /\ dec_op' # dec_op
         /\ ~bit_mode_)
        => (dec_ret' = FALSE /\ pos_' = pos_ /\ dec_out' = Untouched)]_vars
C20_Witness ==
  /\ enc_op.name = "EncodeLeastSignificantBits32" /\ ~enc_op.active
  /\ enc_ret = FALSE /\ Len(buffer_) > 0
  /\ dec_op.name = "DecodeLeastSignificantBits32" /\ ~bit_mode_
  /\ dec_ret = FALSE /\ Len(data_) > 0 /\ pos_ # W64(0)

Peeks == {"Peek", "PeekT"}
\* C21: Peek does not advance the reading position: whether it returns true
\* or false, decoded_size() and remaining_size() are after the call what
\* they were before it, and a Decode of n bytes that follows a successful
\* Peek of n bytes returns true with the bytes the Peek delivered.
C21_PeekKeepsPosition ==
  [][/\ (dec_op'.name \in Peeks) =>
          (decoded_size' = decoded_size /\ remaining_size' = remaining_size)
     /\ (/\ dec_op.name \in Peeks /\ dec_ret
         /\ dec_op'.name \in {"Decode", "DecodeT"} /\ dec_op'.size = dec_op.size
         /\ ~dec_crashed')
        => (dec_ret' /\ dec_out' = dec_out)]_vars
C21_Witness ==
  /\ dec_op.name = "Peek" /\ dec_ret /\ dec_op.size = W64(2)
  /\ pos_ = W64(1) /\ dec_out = <<165, 90>>

\* The last call ran in the C++ build without leaving the data or ending
\* the process.
DefinedInCpp == dec_op.name # "DecoderBuffer" /\ ~dec_crashed /\ ~dec_oob
\* C22: for every sequence of Init, Decode, Peek, Advance(n >= 0) and
\* StartDecodingFrom(k) calls, the DRACO_RUST_CORE build returns what the
\* C++ build returns, delivers the same bytes and reports the same
\* decoded_size() and remaining_size().
C22_RustCoreTransparent ==
  DefinedInCpp =>
    /\ rust_ret = dec_ret
    /\ (dec_ret /\ rust_ret) => rust_out = dec_out
    /\ Rust_decoded_size = decoded_size
    /\ Rust_remaining_size = remaining_size

\* A copy was made and the source has served no call since.
CopyFresh == copy_at = rust_calls
\* A Decode of size bytes returns and delivers the same on two Rust buffers.
SameDecode(a, b, size) ==
  /\ draco_decoder_buffer_decode(a, size).ok = draco_decoder_buffer_decode(b, size).ok
  /\ draco_decoder_buffer_decode(a, size).ok =>
       draco_decoder_buffer_decode(a, size).out = draco_decoder_buffer_decode(b, size).out
\* C23: a copy of a DecoderBuffer, made by copy construction or by copy
\* assignment, is observationally equal to its source in both builds: it
\* reports the same decoded_size() and remaining_size(), and the same Decode
\* calls return the same results on both.
C23_CopyObservablyEqual ==
  CopyFresh =>
    /\ dec_copy.pos_ = decoded_size
    /\ WordSub(dec_copy.data_size_, dec_copy.pos_) = remaining_size
    /\ dec_copy = DecMembers
    /\ draco_decoder_buffer_position(rust_copy.rust_buffer_) =
         draco_decoder_buffer_position(rust_buffer_)
    /\ draco_decoder_buffer_remaining_size(rust_copy.rust_buffer_) =
         draco_decoder_buffer_remaining_size(rust_buffer_)
    /\ \A size \in BothSizeSamples :
         SameDecode(rust_copy.rust_buffer_, rust_buffer_, size)

\* C24: during bit encoding no bit is written outside the bytes reserved by
\* StartBitEncoding(required_bits): after every EncodeLeastSignificantBits32
\* the bits written lie in the reserved bytes and no memory outside buffer_
\* was touched.
C24_BitsStayInReservation ==
  /\ ~enc_oob
  /\ bit_encoder_active => enc_bit_offset_ <= 8 * bit_encoder_reserved_bytes_

\* The call SetFace(i, f) that was made last, and the faces it found.
SetFaceId == mesh_op.arg[1]
FacesBefore == mesh_op.faces
\* max(previous num_faces(), i + 1), for i below 2^32 - 1
MaxOfSizes ==
  IF ULess(SetFaceId, ToUint32(FacesBefore.size))
  THEN ToUint32(FacesBefore.size) ELSE WordAdd(SetFaceId, W32(1))
\* C25: for every face index i in [0, 2^32 - 2] and face f, after
\* SetFace(i, f): face(i) = f, num_faces() = max(previous num_faces(), i + 1),
\* every face that existed before, other than i, is unchanged, and every
\* face created below i is the default face.
C25_SetFaceFrame ==
  (mesh_op.name = "SetFace" /\ SetFaceId # kInvalidFaceIndex) =>
    /\ ~mesh_ub
    /\ GetFace(SetFaceId) = mesh_op.arg[2]
    /\ num_faces = MaxOfSizes
    /\ \A j \in (DOMAIN faces_.at \cup DOMAIN FacesBefore.at) \ {ToSizeT(SetFaceId)} :
         IF ULess(j, FacesBefore.size)
         THEN ULess(j, faces_.size) /\ FaceAt(faces_, j) = FaceAt(FacesBefore, j)
         ELSE FaceAt(faces_, j) = DefaultFace
C25_Witness ==
  /\ mesh_op.name = "SetFace" /\ SetFaceId = <<LimbMax - 1, LimbMax>>
  /\ mesh_op.arg[2] = <<0, 1, 2>>
  /\ FacesBefore.size = W64(2) /\ FaceAt(FacesBefore, W64(1)) = <<1, 0, 1>>
  /\ num_faces = <<LimbMax, LimbMax>>

\* C26: after any sequence of AddAttribute and DeleteAttribute calls on a
\* Mesh the attribute data has an entry for every attribute id in
\* [0, num_attributes()), and GetAttributeElementType(id) and
\* SetAttributeElementType(id, t) index inside it for every id AddAttribute
\* returned.
C26_AttributeDataCoversIds ==
  /\ \A id \in 0..(num_attributes - 1) : InAttributeData(id)
  /\ ~mesh_ub

\* The corner c the last call of CornerToPointId was made with, as an int,
\* and the point index it returned.
CornerAsked == mesh_op.arg[1]
PointReturned == mesh_op.arg[2]
EbStarted == eb_machine.state \in {"Init", "Traversing", "Stacked", "Done"}
EbDone == eb_machine.state = "Done"
\* The faces no component has visited: the seeds that remain.
SeedsLeft == {f \in 0..(Len(ct_faces) - 1) : f \notin eb_machine.visited_faces}
\* C28: on every manifold mesh the encoder state machine started in Init
\* eventually reaches Done, and whenever it is in Done the traversal stack is
\* empty and no unvisited seed face remains.
C28_EncoderReachesDone ==
  /\ [](EbDone => (eb_machine.stack = <<>> /\ SeedsLeft = {}))
  /\ (EbStarted ~> EbDone)
C28_Witness ==
  /\ EbDone /\ Len(ct_faces) = 3 /\ Len(eb_machine.components) = 2
  /\ \E i \in 1..2 : Len(eb_machine.components[i].symbols) = 2
====
